---- MODULE Spec2Model ----
(***************************************************************************)
(* Mail synchronization engine of LifeOs                                   *)
(* (src-tauri/src/commands/email_commands.rs).                             *)
(*                                                                         *)
(* Three groups of state, each with its own specification:                 *)
(*   SpecPages  - the sequence-range arithmetic of imap_fetch_emails,      *)
(*                driven by a caller that pages through a mailbox;         *)
(*   SpecPrefix - the PrefixStream read/write wrapper;                     *)
(*   Spec       - one call of imap_sync / mark_email_read / delete_email   *)
(*                against a server and a local account directory;          *)
(*   SpecTwice  - imap_sync called twice with the same arguments against   *)
(*                an unchanged mailbox, no I/O step failing.               *)
(***************************************************************************)
EXTENDS Integers, Sequences, FiniteSets, TLC

VARIABLES
    \* ---- SpecPages: imap_fetch_emails range computation ----
    pg_total,      \* mailbox.exists reported by SELECT
    pg_max,        \* max_emails
    pg_skip,       \* skip of the current call
    pg_skip0,      \* skip of the first call of the behaviour
    pg_pages,      \* the ranges <<fetch_start, fetch_end>> requested so far
    pg_pc,         \* "call" | "fetched" | "end"
    \* ---- SpecPrefix: PrefixStream ----
    ps_prefix,     \* PrefixStream.prefix: the Vec<u8> inside the Cursor
    ps_pos,        \* PrefixStream.prefix: the Cursor position
    ps_done,       \* PrefixStream.prefix_done
    ps_inner,      \* bytes the inner stream will deliver
    ps_ipos,       \* how many of them the inner stream has delivered
    ps_out,        \* concatenation of the bytes read() has returned
    ps_written,    \* bytes the inner stream has received through write()
    \* ---- Spec: one call against a server and the account directory ----
    call,          \* the command running and its arguments
    pc,            \* the statement the call is at
    mbox,          \* the server's mailbox: message seq -> its properties
    wire,          \* POP3 socket: response lines sent by the server, not yet read
    trace,         \* what the call has done so far: connects, commands, file operations
    faults,        \* the I/O steps of the call that failed
    store,         \* the account directory: dir, .eml files, index.json
    loc,           \* the call's local variables
    result,        \* what the call returned
    srv,           \* the server side of the folder: UID numbering, flags set, messages expunged
    prev,          \* SpecTwice: what the first of the two calls returned and left on disk
    \* ---- SpecDispatch, SpecAccounts: the accounts the commands are called for ----
    accounts,      \* the ImapAccount of each call
    wk,            \* SpecAccounts: the two concurrent imap_sync workers
    fs,            \* SpecAccounts: {vault}/Mailbox, shared by the workers
    \* ---- SpecMime, SpecLine, SpecHandshake: functions over text and byte streams ----
    tx_in,         \* the text handed to the function, or the bytes the server sends
    tx_pos,        \* how many bytes of tx_in have been consumed from the stream
    tx_out,        \* the text the function has built or returned so far
    tx_pc          \* the statement the function is at

pgVars == <<pg_total, pg_max, pg_skip, pg_skip0, pg_pages, pg_pc>>
psVars == <<ps_prefix, ps_pos, ps_done, ps_inner, ps_ipos, ps_out, ps_written>>
opVars == <<call, pc, mbox, wire, trace, faults, store, loc, result, srv, prev>>
acVars == <<accounts, wk, fs>>
txVars == <<tx_in, tx_pos, tx_out, tx_pc>>
vars == <<pgVars, psVars, acVars, txVars, opVars>>

-----------------------------------------------------------------------------
(* Bounds *)

\* Largest value of the scaled-down unsigned word standing for u32.
MaxU == 7
\* Longest prefix buffer, inner stream content and read buffer of PrefixStream.
MaxPrefix == 2
MaxInner == 2
MaxBuf == 2
\* Most bytes written through a PrefixStream.
MaxWritten == 1
\* Largest mailbox, largest max_emails and largest skip of a call.
MaxTotal == 2
MaxEmails == 2
MaxSkip == 3
\* Most untagged lines the server sends before its tagged answer to ID.
MaxIdLines == 1
MaxOffset == 3
MaxLimit == 2
MaxUidlLines == 3
\* Largest number of words (encoded or plain) of a header.
MaxWords == 2
\* The safety limit of read_imap_line (8192 in the code), scaled down.
LineCap == 3
\* Longest flags list of an index entry and most set_flag calls in a row.
MaxFlags == 3
MaxCalls == 3

-----------------------------------------------------------------------------
(* Helpers *)

Min(a, b) == IF a <= b THEN a ELSE b
Max(a, b) == IF a >= b THEN a ELSE b

Last(s) == s[Len(s)]

RECURSIVE Reverse(_)
Reverse(s) == IF s = <<>> THEN <<>> ELSE Append(Reverse(Tail(s)), Head(s))

IsPrefixOf(s, t) == Len(s) <= Len(t) /\ SubSeq(t, 1, Len(s)) = s

Range(s) == {s[i] : i \in DOMAIN s}

\* u32 arithmetic on the scaled-down word 0..MaxU.
U32 == 0..MaxU
u32_sub(a, b) == (a - b) % (MaxU + 1)
saturating_sub(a, b) == IF a >= b THEN a - b ELSE 0

-----------------------------------------------------------------------------
(* imap_fetch_emails: the requested sequence range *)

\* let fetch_end = total - skip;
fetch_end(total, skip) == u32_sub(total, skip)

\* A fetch_start that subtracts max_emails instead of max_emails - 1.
fetch_start_off_by_one(fe, max_emails) ==
    Max(saturating_sub(fe, max_emails), 1)

\* let fetch_start = fetch_end.saturating_sub(max_emails.saturating_sub(1)).max(1);
fetch_start(fe, max_emails) ==
    Max(saturating_sub(fe, saturating_sub(max_emails, 1)), 1)

\* An empty-page test that lets skip == total through.
page_is_empty_gt(total, skip) == total = 0 \/ skip > total

\* if total == 0 || skip >= total { return Ok(Vec::new()); }
page_is_empty(total, skip) == total = 0 \/ skip >= total

\* The inclusive range "{fetch_start}:{fetch_end}" of one call.
fetch_range(total, skip, max_emails) ==
    LET fe == fetch_end(total, skip)
    IN  <<fetch_start(fe, max_emails), fe>>

PgInit ==
    /\ pg_total \in U32
    /\ pg_max \in U32
    /\ pg_skip \in U32
    /\ pg_skip0 = pg_skip
    /\ pg_pages = <<>>
    /\ pg_pc = "call"

PgIdle ==
    /\ pg_total = 0 /\ pg_max = 0 /\ pg_skip = 0 /\ pg_skip0 = 0
    /\ pg_pages = <<>> /\ pg_pc = "end"

\* One call of imap_fetch_emails after a successful SELECT.
PgFetch ==
    /\ pg_pc = "call"
    /\ IF page_is_empty(pg_total, pg_skip)
       THEN /\ pg_pc' = "end"
            /\ UNCHANGED pg_pages
       ELSE /\ pg_pages' = Append(pg_pages, fetch_range(pg_total, pg_skip, pg_max))
            /\ pg_pc' = "fetched"
    /\ UNCHANGED <<pg_total, pg_max, pg_skip, pg_skip0, psVars, acVars, txVars, opVars>>

\* The caller asks for the next page: skip grows by max_emails.
PgNextPage ==
    /\ pg_pc = "fetched"
    /\ pg_max >= 1
    /\ pg_skip + pg_max <= MaxU
    /\ pg_skip' = pg_skip + pg_max
    /\ pg_pc' = "call"
    /\ UNCHANGED <<pg_total, pg_max, pg_skip0, pg_pages, psVars, acVars, txVars, opVars>>

-----------------------------------------------------------------------------
(* PrefixStream *)

\* Cursor<Vec<u8>>::read: copies min(buf.len(), remaining) bytes.
cursor_read(len) == Min(len, Len(ps_prefix) - ps_pos)

PsInit ==
    /\ \E pl \in 0..MaxPrefix : ps_prefix = [i \in 1..pl |-> i]
    /\ \E il \in 0..MaxInner : ps_inner = [i \in 1..il |-> 10 + i]
    /\ ps_pos = 0
    /\ ps_done = FALSE
    /\ ps_ipos = 0
    /\ ps_out = <<>>
    /\ ps_written = <<>>

PsIdle ==
    /\ ps_prefix = <<>> /\ ps_inner = <<>> /\ ps_pos = 0 /\ ps_done = TRUE
    /\ ps_ipos = 0 /\ ps_out = <<>> /\ ps_written = <<>>

\* self.inner.read(buf): the inner stream delivers between one byte and
\* min(buf.len(), available) bytes (zero at end of stream or for an empty buf).
InnerRead(len) ==
    LET avail == Min(len, Len(ps_inner) - ps_ipos)
    IN  \E k \in (IF avail = 0 THEN {0} ELSE 1..avail) :
            /\ ps_out' = ps_out \o SubSeq(ps_inner, ps_ipos + 1, ps_ipos + k)
            /\ ps_ipos' = ps_ipos + k

\* self.inner.read(buf) returning Err: nothing is delivered.
InnerReadErr == UNCHANGED <<ps_out, ps_ipos>>

\* impl Read for PrefixStream: read(buf) with buf.len() = len.
PsRead(len) ==
    /\ IF ~ps_done
       THEN LET n == cursor_read(len)
            IN  IF n = 0
                THEN /\ ps_done' = TRUE
                     /\ UNCHANGED ps_pos
                     /\ (InnerRead(len) \/ InnerReadErr)
                ELSE /\ ps_out' = ps_out \o SubSeq(ps_prefix, ps_pos + 1, ps_pos + n)
                     /\ ps_pos' = ps_pos + n
                     /\ UNCHANGED <<ps_done, ps_ipos>>
       ELSE /\ (InnerRead(len) \/ InnerReadErr)
            /\ UNCHANGED <<ps_done, ps_pos>>
    /\ UNCHANGED <<ps_prefix, ps_inner, ps_written, pgVars, acVars, txVars, opVars>>

\* impl Write for PrefixStream: write(buf) delegates to the inner stream.
PsWrite(b) ==
    /\ Len(ps_written) < MaxWritten
    /\ ps_written' = Append(ps_written, b)
    /\ UNCHANGED <<ps_prefix, ps_pos, ps_done, ps_inner, ps_ipos, ps_out, pgVars, acVars, txVars, opVars>>

-----------------------------------------------------------------------------
(* The server, the account directory and the values a call handles *)

Folder == "INBOX"          \* the folder earlier syncs were run on
\* The folder argument of imap_sync.
Folders == {"INBOX", "Sent"}
AccountDir == "acct"       \* account_dir: the account's directory name

\* File names and message ids are pairs <<text, number>>:
\*   <<"INBOX", 42>> is "INBOX_42", <<"", 42>> is "42", <<"mid", 7>> is the
\*   sanitized Message-ID of server message 7.
NoName == <<"-", 0>>
NoneStr == <<"none", 0>>

\* What the server holds for one message: whether mail_parser can parse its
\* raw bytes, and its Message-ID header: none, one of its own, or the one
\* every copy of a message delivered more than once carries.
MidKinds == {"none", "clean", "copy"}
MsgKinds == {k \in [parses : BOOLEAN, mid : MidKinds] : k.mid = "copy" => k.parses}
Mailboxes == UNION {[1..n -> MsgKinds] : n \in 0..MaxTotal}

\* The UID the server gives the message at sequence number n (UIDs and
\* sequence numbers differ once an older message has been expunged), and the
\* unique-id its UIDL response lists for it.
ServerUid(n) == IF srv.renumbered THEN n + 1 ELSE n
ServerUidl(n) == 100 + n

\* One line on the POP3 socket.
Line(t, n) == [t |-> t, n |-> n]

\* One entry of the trace.
Ev(ev, cmd, n, m, name) == [ev |-> ev, cmd |-> cmd, n |-> n, m |-> m, name |-> name]
Sent(cmd) == Ev("send", cmd, 0, 0, NoName)
Sends(cmd) == {i \in DOMAIN trace : trace[i].ev = "send" /\ trace[i].cmd = cmd}
Events(ev) == {i \in DOMAIN trace : trace[i].ev = ev}

\* Result<Vec<EmailMessage>, String>
Ok(list) == [kind |-> "ok", emails |-> list, err |-> ""]
\* An error swallowed into an empty page.
Err_swallowed(e) == [kind |-> "ok", emails |-> <<>>, err |-> ""]
Err(e) == [kind |-> "err", emails |-> <<>>, err |-> e]
NoResult == [kind |-> "none", emails |-> <<>>, err |-> ""]

\* struct EmailMessage (the fields the sync decides)
EmailMessage(id, uid, uid_string, body_text, body_html, folder) ==
    [id |-> id, uid |-> uid, uid_string |-> uid_string,
     body_text |-> body_text, body_html |-> body_html,
     flags |-> <<>>, folder |-> folder]

\* fs::write(path, raw): the file is created or replaced as a whole.
fs_write(st, name, raw) ==
    [st EXCEPT !.eml = {f \in st.eml : f.name # name} \cup {[name |-> name, raw |-> raw]}]

FileNames(st) == {f.name : f \in st.eml}

\* fs::write(index_path, index_json) fails: std::fs::write truncates the file
\* and then writes, so the failure leaves the file as it was (it could not be
\* opened), or empty or cut short.
index_write_failed(st) ==
    {st, [st EXCEPT !.index = [exists |-> TRUE, entries |-> <<>>, torn |-> TRUE]]}

Perms(S) ==
    {p \in [1..Cardinality(S) -> S] : \A i, j \in DOMAIN p : i # j => p[i] # p[j]}

\* Option<usize>::None
NoneNum == -1

NoCall ==
    [op |-> "none", proto |-> "imap", tls |-> FALSE, folder |-> Folder, max |-> 0, skip |-> 0,
     id |-> NoName, read |-> FALSE, creds |-> FALSE, offset |-> NoneNum, limit |-> NoneNum]

NoLoc ==
    [authed |-> FALSE, timeout |-> FALSE, total |-> 0, range |-> <<0, 0>>, idleft |-> 0, fetched |-> <<>>, i |-> 0,
     emails |-> <<>>, page |-> <<>>, response |-> <<>>, primary |-> NoResult]

\* The account directory: whether it exists, its .eml files, its legacy
\* {id}.json files and index.json (torn: left empty or cut short by a write
\* that failed after the file had been truncated).
EmptyStore ==
    [dir |-> FALSE, eml |-> {}, json |-> {},
     index |-> [exists |-> FALSE, entries |-> <<>>, torn |-> FALSE]]

\* The raw RFC822 bytes of server message n.
RawOf(n) == <<Line("msg", n)>>

\* An index entry written with the message bodies left in.
IndexEntry_with_body(n) ==
    [EmailMessage(<<Folder, n>>, n, <<"some", n>>, <<"text", n>>, <<"html", n>>, Folder)
        EXCEPT !.flags = IF n % 2 = 0 THEN <<"Seen">> ELSE <<>>]
\* The index.json entry of the message cached under UID n: bodies nulled.
IndexEntry(n) ==
    [EmailMessage(<<Folder, n>>, n, <<"some", n>>, NoneStr, NoneStr, Folder)
        EXCEPT !.flags = IF n % 2 = 0 THEN <<"Seen">> ELSE <<>>]
\* The account directory after earlier syncs of the mailbox mb, made when the
\* message at sequence number n had UID n: one .eml file per message, an older
\* copy of message 1 named by its number alone ("1.eml"), an index.json
\* listing the messages newest first, and two messages kept in the legacy
\* JSON-per-message format: message 1 and one that has no .eml file.
CachedStore(mb) ==
    [dir |-> TRUE,
     eml |-> {[name |-> <<Folder, n>>, raw |-> RawOf(n)] : n \in 1..Len(mb)}
             \cup {[name |-> <<"", n>>, raw |-> RawOf(n)] : n \in 1..Min(1, Len(mb))},
     json |-> {<<Folder, n>> : n \in (1..Min(1, Len(mb))) \cup {Len(mb) + 1}},
     index |-> [exists |-> TRUE,
                entries |-> [i \in 1..Len(mb) |-> IndexEntry(Len(mb) + 1 - i)],
                torn |-> FALSE]]

\* The server side of the selected folder: whether its UIDs run ahead of its
\* sequence numbers (the call learns the folder's numbering when SELECT opens
\* it), the flag changes STORE has made (sequence number, flag change) and the
\* sequence numbers EXPUNGE has removed.
NoSrv == [renumbered |-> FALSE, stored |-> {}, expunged |-> {}]
NoPrev == [set |-> FALSE, result |-> NoResult, store |-> EmptyStore, order |-> <<>>]

OpIdle ==
    /\ call = NoCall /\ pc = "off" /\ mbox = <<>> /\ wire = <<>> /\ trace = <<>>
    /\ faults = {} /\ store = EmptyStore /\ loc = NoLoc /\ result = NoResult
    /\ srv = NoSrv /\ prev = NoPrev

OpInit ==
    /\ call = NoCall
    /\ pc = "idle"
    /\ mbox \in Mailboxes
    /\ wire = <<>>
    /\ trace = <<>>
    /\ faults = {}
    /\ srv = NoSrv
    /\ store \in {EmptyStore, CachedStore(mbox)}
    /\ loc = NoLoc
    /\ result = NoResult
    /\ prev = NoPrev

\* The call returns res.
Return(res) == pc' = "done" /\ result' = res

\* An I/O step fails and the `?` operator returns the error at once.
FailReturn(step, e) ==
    /\ faults' = faults \cup {step}
    /\ Return(Err(e))

Log(e) == trace' = Append(trace, e)

\* {vault}/Mailbox: its account directories and the files in them.
EmptyFs == [dirs |-> {}, files |-> {}]

AcIdle == accounts = <<>> /\ wk = <<>> /\ fs = EmptyFs

TxIdle == tx_in = <<>> /\ tx_pos = 0 /\ tx_out = <<>> /\ tx_pc = "off"

-----------------------------------------------------------------------------
(* imap_sync: the dispatch *)

SyncCalls ==
    {c \in [op : {"sync"}, proto : {"imap", "pop3"}, tls : BOOLEAN, folder : Folders,
            max : 0..MaxEmails, skip : 0..MaxSkip,
            id : {NoName}, read : {FALSE}, creds : {TRUE},
            offset : {NoneNum}, limit : {NoneNum}] :
        c.proto = "pop3" => c.folder = Folder}

\* imap_sync is invoked: use_tls = port == 993 || port == 995, protocol from
\* the account. The POP3 functions are not passed the folder argument.
StartSync ==
    /\ pc = "idle"
    /\ call' \in SyncCalls
    /\ pc' = "connect"
    /\ UNCHANGED <<mbox, wire, trace, faults, store, loc, result, pgVars, psVars, acVars, txVars, srv, prev>>

\* tcp.set_read_timeout(Some(Duration::from_secs(30))).ok() is called on the
\* socket of a sync over IMAP with TLS and of a sync over POP3 (both paths);
\* the IMAP path without TLS and the flag operations never call it.
sets_read_timeout(c) == c.op = "sync" /\ (c.tls \/ c.proto = "pop3")

\* TcpStream::connect
Connect ==
    /\ pc = "connect"
    /\ \/ /\ Log(Ev("connect", "", 0, 0, NoName))
          /\ pc' = IF call.tls THEN "tls"
                   ELSE IF call.op = "sync" /\ call.proto = "pop3" THEN "pop_greet"
                   ELSE "starttls"
          /\ wire' = IF call.op = "sync" /\ call.proto = "pop3" /\ ~call.tls
                     THEN <<Line("+OK", 0)>> ELSE wire
          /\ loc' = [loc EXCEPT !.timeout = sets_read_timeout(call)]
          /\ UNCHANGED <<faults, result>>
       \/ /\ FailReturn("connect", "connect")
          /\ UNCHANGED <<trace, wire, loc>>
    /\ UNCHANGED <<call, mbox, store, pgVars, psVars, acVars, txVars, srv, prev>>

\* tls.connect(host, tcp)
TlsHandshake ==
    /\ pc = "tls"
    /\ \/ /\ Log(Ev("tls", "", 0, 0, NoName))
          /\ pc' = IF call.op # "sync" THEN "login"
                   ELSE IF call.proto = "pop3" THEN "pop_greet" ELSE "greeting"
          /\ wire' = IF call.op = "sync" /\ call.proto = "pop3"
                     THEN <<Line("+OK", 0)>> ELSE wire
          /\ UNCHANGED <<faults, result>>
       \/ /\ FailReturn("tls", "tls")
          /\ UNCHANGED <<trace, wire>>
    /\ UNCHANGED <<call, mbox, store, loc, pgVars, psVars, acVars, txVars, srv, prev>>

-----------------------------------------------------------------------------
(* imap_sync_with_crate *)

\* let greeting = read_imap_line(&mut tls_stream)?;
ReadGreeting ==
    /\ pc = "greeting"
    /\ \/ /\ Log(Ev("line", "greeting", 0, 0, NoName))
          /\ pc' = "send_id"
          /\ UNCHANGED <<faults, result>>
       \/ FailReturn("read", "read") /\ UNCHANGED trace
    /\ UNCHANGED <<call, mbox, wire, store, loc, pgVars, psVars, acVars, txVars, srv, prev>>

\* tls_stream.write_all(b"A000 ID (...)")?; tls_stream.flush()?;
SendId ==
    /\ pc = "send_id"
    /\ \/ /\ Log(Sent("ID"))
          /\ \E k \in 0..MaxIdLines : loc' = [loc EXCEPT !.idleft = k]
          /\ pc' = "read_id"
          /\ UNCHANGED <<faults, result>>
       \/ /\ FailReturn("write", "write")
          /\ UNCHANGED <<trace, loc>>
    /\ UNCHANGED <<call, mbox, wire, store, pgVars, psVars, acVars, txVars, srv, prev>>

\* A loop that takes the first line of the ID response for the last.
ReadIdLine_first_line ==
    /\ pc = "read_id"
    /\ \/ /\ IF loc.idleft > 0 THEN UNCHANGED trace
             ELSE Log(Ev("line", "A000", 0, 0, NoName))
          /\ pc' = "login"
          /\ loc' = [loc EXCEPT !.idleft = 0]
          /\ UNCHANGED <<faults, result>>
       \/ /\ FailReturn("read", "read")
          /\ UNCHANGED <<loc, trace>>
    /\ UNCHANGED <<call, mbox, wire, store, pgVars, psVars, acVars, txVars, srv, prev>>

\* loop { let line = read_imap_line(..)?; if line_str.starts_with("A000 ") { break; } }
\* loc.idleft is the number of untagged lines the server sends before the
\* tagged one; the trace records the tagged line.
ReadIdLine ==
    /\ pc = "read_id"
    /\ \/ /\ IF loc.idleft > 0
             THEN /\ loc' = [loc EXCEPT !.idleft = @ - 1]
                  /\ UNCHANGED <<pc, trace>>
             ELSE /\ Log(Ev("line", "A000", 0, 0, NoName))
                  /\ pc' = "login"
                  /\ UNCHANGED loc
          /\ UNCHANGED <<faults, result>>
       \/ /\ FailReturn("read", "read")
          /\ UNCHANGED <<loc, trace>>
    /\ UNCHANGED <<call, mbox, wire, store, pgVars, psVars, acVars, txVars, srv, prev>>

\* imap::Client::new(stream).secure(host, &tls)
StartTls ==
    /\ pc = "starttls"
    /\ \/ /\ Log(Sent("STARTTLS"))
          /\ pc' = "login"
          /\ UNCHANGED <<faults, result>>
       \/ /\ FailReturn("starttls", "starttls")
          /\ UNCHANGED trace
    /\ UNCHANGED <<call, mbox, wire, store, loc, pgVars, psVars, acVars, txVars, srv, prev>>

\* client.login(email, password).map_err(..)?
Login ==
    /\ pc = "login"
    /\ Log(Sent("LOGIN"))
    /\ \/ /\ pc' = "select"
          /\ loc' = [loc EXCEPT !.authed = TRUE]
          /\ UNCHANGED <<faults, result>>
       \/ /\ FailReturn("login", "login")
          /\ UNCHANGED loc
    /\ UNCHANGED <<call, mbox, wire, store, pgVars, psVars, acVars, txVars, srv, prev>>

\* imap_fetch_emails: session.select(folder)?, the empty-page test and the range.
\* An error leaves imap_fetch_emails; imap_sync_with_crate then logs out.
SelectSync ==
    /\ pc = "select" /\ call.op = "sync"
    /\ Log(Sent("SELECT"))
    /\ \/ LET total == Len(mbox)
          IN  /\ IF page_is_empty(total, call.skip)
                 THEN /\ loc' = [loc EXCEPT !.total = total, !.primary = Ok(<<>>)]
                      /\ pc' = "logout"
                      /\ UNCHANGED srv
                 ELSE /\ loc' = [loc EXCEPT !.total = total,
                                            !.range = fetch_range(total, call.skip, call.max)]
                      /\ pc' = "mkdir"
                      /\ \E b \in BOOLEAN : srv' = [srv EXCEPT !.renumbered = b]
              /\ UNCHANGED faults
       \/ /\ faults' = faults \cup {"select"}
          /\ loc' = [loc EXCEPT !.primary = Err("select")]
          /\ pc' = "logout"
          /\ UNCHANGED srv
    /\ UNCHANGED <<call, mbox, wire, store, result, pgVars, psVars, acVars, txVars, prev>>

\* fs::create_dir_all(&emails_dir)?
MkdirImap ==
    /\ pc = "mkdir"
    /\ \/ /\ Log(Ev("mkdir", "", 0, 0, NoName))
          /\ store' = [store EXCEPT !.dir = TRUE]
          /\ pc' = "fetch"
          /\ UNCHANGED <<faults, loc>>
       \/ /\ faults' = faults \cup {"mkdir"}
          /\ loc' = [loc EXCEPT !.primary = Err("mkdir")]
          /\ pc' = "logout"
          /\ UNCHANGED <<trace, store>>
    /\ UNCHANGED <<call, mbox, wire, result, pgVars, psVars, acVars, txVars, srv, prev>>

\* session.fetch(&range, "(UID FLAGS RFC822)")?: the server answers with the
\* messages of the range, in an order of its choosing.
Fetch ==
    /\ pc = "fetch"
    /\ Log(Ev("send", "FETCH", loc.range[1], loc.range[2], NoName))
    /\ \/ /\ \E p \in Perms(loc.range[1]..loc.range[2]) :
                loc' = [loc EXCEPT !.fetched = p, !.i = 1, !.emails = <<>>]
          /\ pc' = "parse"
          /\ UNCHANGED faults
       \/ /\ faults' = faults \cup {"fetch"}
          /\ loc' = [loc EXCEPT !.primary = Err("fetch")]
          /\ pc' = "logout"
    /\ UNCHANGED <<call, mbox, wire, store, result, pgVars, psVars, acVars, txVars, srv, prev>>

\* parse_imap_messages: what one Fetch becomes. A message mail_parser cannot
\* parse gets empty header fields and body_text = body_html = None.
imap_email(n) ==
    LET uid == ServerUid(n)
    IN  EmailMessage(<<call.folder, uid>>, uid, <<"some", uid>>,
                     IF mbox[n].parses THEN <<"text", n>> ELSE NoneStr,
                     IF mbox[n].parses THEN <<"html", n>> ELSE NoneStr,
                     call.folder)

\* A push that leaves out a message whose structured parse failed.
push_parsed_only(emails, msg) ==
    IF msg.body_text = NoneStr /\ msg.body_html = NoneStr THEN emails ELSE Append(emails, msg)

\* emails.push(EmailMessage { .. })
push_email(emails, msg) == Append(emails, msg)

\* A page returned in the order of the FETCH response.
imap_page_unreversed(emails) == Ok(emails)

\* emails.reverse(); Ok(emails)
imap_page(emails) == Ok(Reverse(emails))

\* parse_imap_messages: one turn of `for msg in messages.iter()`: write
\* {folder}_{uid}.eml, parse, push; after the last turn imap_fetch_emails
\* reverses the list and returns it.
ParseImapMessage ==
    /\ pc = "parse"
    /\ LET n == loc.fetched[loc.i]
           msg == imap_email(n)
       IN  \/ /\ Log(Ev("write", "", n, 0, msg.id))
              /\ store' = fs_write(store, msg.id, RawOf(n))
              /\ IF loc.i = Len(loc.fetched)
                 THEN /\ loc' = [loc EXCEPT !.emails = push_email(@, msg),
                                            !.primary = imap_page(push_email(loc.emails, msg))]
                      /\ pc' = "logout"
                 ELSE /\ loc' = [loc EXCEPT !.emails = push_email(@, msg), !.i = @ + 1]
                      /\ UNCHANGED pc
              /\ UNCHANGED faults
           \/ /\ faults' = faults \cup {"fswrite"}
              /\ loc' = [loc EXCEPT !.primary = Err("fswrite")]
              /\ pc' = "logout"
              /\ UNCHANGED <<trace, store>>
    /\ UNCHANGED <<call, mbox, wire, result, pgVars, psVars, acVars, txVars, srv, prev>>

\* session.logout().ok(); result
LogoutSync ==
    /\ pc = "logout" /\ call.op = "sync"
    /\ Log(Sent("LOGOUT"))
    /\ (UNCHANGED faults \/ faults' = faults \cup {"logout"})
    /\ Return(loc.primary)
    /\ UNCHANGED <<call, mbox, wire, store, loc, pgVars, psVars, acVars, txVars, srv, prev>>

-----------------------------------------------------------------------------
(* pop3_sync_tls / pop3_sync_plain *)

\* What the server sends in answer to UIDL and to RETR n.
UidlResponse ==
    <<Line("+OK", 0)>> \o [n \in 1..Len(mbox) |-> Line("uidl", n)] \o <<Line(".", 0)>>
RetrResponse(n) ==
    IF n \in 1..Len(mbox)
    THEN <<Line("+OK", 0)>> \o RawOf(n) \o <<Line(".", 0)>>
    ELSE <<Line("-ERR", 0)>>

\* stream.read(&mut buf): -1 is Err (time-out or broken connection); otherwise
\* the number of pending lines the read returns: any non-empty part of what
\* the server has sent, or 0 (end of stream) when nothing is pending.
ReadChoices == {-1} \cup (IF wire = <<>> THEN {0} ELSE 1..Len(wire))
Chunk(r) == SubSeq(wire, 1, r)
Rest(r) == SubSeq(wire, r + 1, Len(wire))

\* A check that takes any answer for +OK.
contains_ok_any_answer(chunk) == chunk # <<>>
\* resp.contains("+OK")
contains_ok(chunk) == \E i \in DOMAIN chunk : chunk[i].t = "+OK"

\* line.split_whitespace(): the number of tokens of a line. A listing line is
\* "n unique-id"; "one" is a line of a single number, "nonnum" a line of two
\* words.
num_tokens(line) ==
    IF line.t = "blank" THEN 0
    ELSE IF line.t \in {"uidl", "nonnum", "-ERR"} THEN 2
    ELSE 1

\* parts[0].parse::<u32>() is Ok
first_is_u32(line) == line.t \in {"uidl", "one"}

\* parse_uidl_response that reads on after the "." line.
RECURSIVE parse_uidl_response_past_dot(_)
parse_uidl_response_past_dot(lines) ==
    IF lines = <<>> THEN <<>>
    ELSE LET h == Head(lines)
         IN  IF h.t \in {"blank", "+OK", "."} THEN parse_uidl_response_past_dot(Tail(lines))
             ELSE IF num_tokens(h) >= 2 /\ first_is_u32(h)
                  THEN <<<<h.n, ServerUidl(h.n)>>>> \o parse_uidl_response_past_dot(Tail(lines))
                  ELSE parse_uidl_response_past_dot(Tail(lines))

\* parse_uidl_response: blank lines and lines starting with +OK are skipped,
\* "." ends the parsing, a line of at least two tokens whose first is a number
\* gives the pair (number, second token), any other line is ignored.
RECURSIVE parse_uidl_response(_)
parse_uidl_response(lines) ==
    IF lines = <<>> THEN <<>>
    ELSE LET h == Head(lines)
         IN  IF h.t \in {"blank", "+OK"} THEN parse_uidl_response(Tail(lines))
             ELSE IF h.t = "." THEN <<>>
             ELSE IF num_tokens(h) >= 2 /\ first_is_u32(h)
                  THEN <<<<h.n, ServerUidl(h.n)>>>> \o parse_uidl_response(Tail(lines))
                  ELSE parse_uidl_response(Tail(lines))

\* server_uids.sort_by(|a, b| b.0.cmp(&a.0)): stable, descending by sequence number.
RECURSIVE insert_desc(_, _)
insert_desc(sorted, x) ==
    IF sorted = <<>> THEN <<x>>
    ELSE IF Head(sorted)[1] >= x[1]
         THEN <<Head(sorted)>> \o insert_desc(Tail(sorted), x)
         ELSE <<x>> \o sorted
RECURSIVE sort_desc(_)
sort_desc(pairs) ==
    IF pairs = <<>> THEN <<>>
    ELSE insert_desc(sort_desc(SubSeq(pairs, 1, Len(pairs) - 1)), pairs[Len(pairs)])

\* server_uids.into_iter().skip(skip).take(max_emails).collect()
skip_take(list, skip, max_emails) ==
    SubSeq(list, skip + 1, Min(Len(list), skip + max_emails))

pop3_page(uidl_resp, skip, max_emails) ==
    skip_take(sort_desc(parse_uidl_response(uidl_resp)), skip, max_emails)

\* resp_str.contains("\r\n.\r\n") || resp_str.contains("\n.\n"): a line "."
\* that follows a line break.
has_terminator(response) == \E i \in 2..Len(response) : response[i].t = "."

\* Strip the first line (the +OK status line): &response[idx + 2..]
strip_status(response) == IF response = <<>> THEN <<>> ELSE Tail(response)

\* The server message whose bytes the raw text starts with (0: none).
RECURSIVE MsgIn(_)
MsgIn(raw) ==
    IF raw = <<>> THEN 0
    ELSE IF Head(raw).t = "msg" THEN Head(raw).n ELSE MsgIn(Tail(raw))

\* MessageParser::default().parse(raw) returns Some
mail_parses(raw) == MsgIn(raw) > 0 /\ mbox[MsgIn(raw)].parses

\* The Message-ID header of the raw text, if any.
message_id_of(raw) ==
    IF MsgIn(raw) > 0 /\ mbox[MsgIn(raw)].mid # "none"
    THEN <<"mid", (IF mbox[MsgIn(raw)].mid = "clean" THEN MsgIn(raw) ELSE 0)>>
    ELSE NoName

\* .chars().filter(alphanumeric or @ . - _).take(100).collect()
sanitize(name) == IF name[1] = "midraw" THEN <<"midsan", name[2]>> ELSE name

\* parse_email_body: (body_text, body_html), with the plain-text fallback.
\* No command calls it.
parse_email_body(raw) ==
    IF mail_parses(raw)
    THEN <<<<"text", MsgIn(raw)>>, <<"html", MsgIn(raw)>>>>
    ELSE <<<<"lossy", MsgIn(raw)>>, NoneStr>>

\* parse_pop3_email_basic_raw: header lines only, no body.
parse_pop3_email_basic_raw(raw, folder, seq, uid_string) ==
    LET message_id == message_id_of(raw)
    IN  [msg |-> EmailMessage(IF message_id # NoName THEN message_id ELSE <<folder, seq>>,
                              seq, uid_string, NoneStr, NoneStr, folder),
         message_id |-> message_id]

\* parse_pop3_email_with_parser
parse_pop3_email_with_parser(raw, folder, seq, uid_string) ==
    IF mail_parses(raw)
    THEN LET message_id == IF message_id_of(raw) # NoName
                           THEN sanitize(message_id_of(raw)) ELSE NoName
         IN  [msg |-> EmailMessage(IF message_id # NoName THEN message_id ELSE <<folder, seq>>,
                                   seq, uid_string,
                                   <<"text", MsgIn(raw)>>, <<"html", MsgIn(raw)>>, folder),
              message_id |-> message_id]
    ELSE parse_pop3_email_basic_raw(raw, folder, seq, NoneStr)

\* read_response(&mut stream)? for the greeting (its content is not looked at)
PopGreet ==
    /\ pc = "pop_greet"
    /\ \E r \in ReadChoices :
          IF r = -1
          THEN FailReturn("read", "read") /\ UNCHANGED wire
          ELSE /\ wire' = Rest(r)
               /\ pc' = "pop_user"
               /\ UNCHANGED <<faults, result>>
    /\ UNCHANGED <<call, mbox, trace, store, loc, pgVars, psVars, acVars, txVars, srv, prev>>

\* stream.write_all(cmd)?: the command reaches the server, which answers; the
\* trace records the command and the status line of the answer.
PopWrite(at, cmd, replies, next) ==
    /\ pc = at
    /\ \/ /\ \E reply \in replies :
                /\ wire' = wire \o reply
                /\ trace' = trace \o <<Sent(cmd), Ev("reply", cmd, 0, 0, <<reply[1].t, 0>>)>>
          /\ pc' = next
          /\ UNCHANGED <<faults, result>>
       \/ /\ FailReturn("write", "write")
          /\ UNCHANGED <<trace, wire>>
    /\ UNCHANGED <<call, mbox, store, loc, pgVars, psVars, acVars, txVars, srv, prev>>

\* read_response(..)?; if !resp.contains("+OK") { return Err(..) }
\* faults records under the name `refused` that the server did not answer +OK.
PopExpectOk(at, refused, e, next) ==
    /\ pc = at
    /\ \E r \in ReadChoices :
          IF r = -1
          THEN FailReturn("read", "read") /\ UNCHANGED <<wire, loc>>
          ELSE /\ wire' = Rest(r)
               /\ faults' = IF contains_ok(Chunk(r)) THEN faults ELSE faults \cup {refused}
               /\ IF contains_ok(Chunk(r))
                  THEN /\ pc' = next
                       /\ loc' = [loc EXCEPT !.authed = (next = "pop_uidl")]
                       /\ UNCHANGED result
                  ELSE /\ Return(Err(e))
                       /\ UNCHANGED loc
    /\ UNCHANGED <<call, mbox, trace, store, pgVars, psVars, acVars, txVars, srv, prev>>

StatusReplies == {<<Line("+OK", 0)>>, <<Line("-ERR", 0)>>}

PopUser == PopWrite("pop_user", "USER", StatusReplies, "pop_user_resp")
PopUserResp == PopExpectOk("pop_user_resp", "user", "USER", "pop_pass")
PopPass == PopWrite("pop_pass", "PASS", StatusReplies, "pop_pass_resp")
PopPassResp == PopExpectOk("pop_pass_resp", "pass", "login", "pop_uidl")
PopUidl == PopWrite("pop_uidl", "UIDL", {UidlResponse}, "pop_uidl_resp")

\* let uidl_resp = read_response(..)?; parse, sort, skip, take; an empty page
\* goes to QUIT and Ok(Vec::new()).
PopUidlResp ==
    /\ pc = "pop_uidl_resp"
    /\ \E r \in ReadChoices :
          IF r = -1
          THEN FailReturn("read", "read") /\ UNCHANGED <<wire, loc>>
          ELSE LET page == pop3_page(Chunk(r), call.skip, call.max)
               IN  /\ wire' = Rest(r)
                   /\ loc' = [loc EXCEPT !.page = page, !.i = 1, !.emails = <<>>,
                                         !.primary = Ok(<<>>)]
                   /\ pc' = IF page = <<>> THEN "pop_quit" ELSE "pop_mkdir"
                   /\ UNCHANGED <<faults, result>>
    /\ UNCHANGED <<call, mbox, trace, store, pgVars, psVars, acVars, txVars, srv, prev>>

\* fs::create_dir_all(&emails_dir)?
PopMkdir ==
    /\ pc = "pop_mkdir"
    /\ \/ /\ Log(Ev("mkdir", "", 0, 0, NoName))
          /\ store' = [store EXCEPT !.dir = TRUE]
          /\ pc' = "pop_retr"
          /\ UNCHANGED <<faults, result>>
       \/ /\ FailReturn("mkdir", "mkdir")
          /\ UNCHANGED <<trace, store>>
    /\ UNCHANGED <<call, mbox, wire, loc, pgVars, psVars, acVars, txVars, srv, prev>>

\* stream.write_all(format!("RETR {}\r\n", seq))?; let mut response = Vec::new();
PopRetr ==
    /\ pc = "pop_retr"
    /\ LET seq == loc.page[loc.i][1]
       IN  \/ /\ Log(Ev("send", "RETR", seq, 0, NoName))
              /\ wire' = wire \o RetrResponse(seq)
              /\ loc' = [loc EXCEPT !.response = <<>>]
              /\ pc' = "pop_retr_read"
              /\ UNCHANGED <<faults, result>>
           \/ /\ FailReturn("write", "write")
              /\ UNCHANGED <<trace, wire, loc>>
    /\ UNCHANGED <<call, mbox, store, pgVars, psVars, acVars, txVars, srv, prev>>

\* One turn of the read loop: Ok(0) => break, Err(_) => break, Ok(n) => extend
\* the response and break once it holds the terminator.
PopRetrRead ==
    /\ pc = "pop_retr_read"
    /\ \E r \in ReadChoices :
          IF r = -1
          THEN /\ faults' = faults \cup {"read"}
               /\ pc' = "pop_save"
               /\ UNCHANGED <<wire, loc>>
          ELSE /\ wire' = Rest(r)
               /\ loc' = [loc EXCEPT !.response = @ \o Chunk(r)]
               /\ pc' = IF r = 0 \/ has_terminator(loc.response \o Chunk(r))
                        THEN "pop_save" ELSE "pop_retr_read"
               /\ UNCHANGED faults
    /\ UNCHANGED <<call, mbox, trace, store, result, pgVars, psVars, acVars, txVars, srv, prev>>

\* Strip the status line, parse, write the .eml file, push the message.
PopSave ==
    /\ pc = "pop_save"
    /\ LET seq == loc.page[loc.i][1]
           uid_string == <<"some", loc.page[loc.i][2]>>
           raw_email == strip_status(loc.response)
           parsed == parse_pop3_email_with_parser(raw_email, AccountDir, seq, uid_string)
           eml_filename == IF parsed.message_id # NoName
                           THEN parsed.message_id ELSE <<"", seq>>
           safe_filename == sanitize(eml_filename)
       IN  \/ /\ Log(Ev("write", "", seq, 0, safe_filename))
              /\ store' = fs_write(store, safe_filename, raw_email)
              /\ loc' = [loc EXCEPT !.emails = push_email(@, parsed.msg), !.i = @ + 1,
                                    !.primary = Ok(push_email(loc.emails, parsed.msg))]
              /\ pc' = IF loc.i = Len(loc.page) THEN "pop_quit" ELSE "pop_retr"
              /\ UNCHANGED <<faults, result>>
           \/ /\ FailReturn("fswrite", "fswrite")
              /\ UNCHANGED <<trace, store, loc>>
    /\ UNCHANGED <<call, mbox, wire, pgVars, psVars, acVars, txVars, srv, prev>>

\* stream.write_all(b"QUIT\r\n").ok(); Ok(emails)
PopQuit ==
    /\ pc = "pop_quit"
    /\ Log(Sent("QUIT"))
    /\ (UNCHANGED faults \/ faults' = faults \cup {"quit"})
    /\ Return(loc.primary)
    /\ UNCHANGED <<call, mbox, wire, store, loc, pgVars, psVars, acVars, txVars, srv, prev>>

-----------------------------------------------------------------------------
(* mark_email_read and delete_email *)

\* The uid taken from the first part of the id: "INBOX" does not parse, so 0.
uid_of_id_first(id) == 0

\* email_id.split('_').last().and_then(|s| s.parse().ok()).unwrap_or(0)
uid_of_id(id) == IF id[1] \in {"mid", "midraw", "midsan"} THEN 0 ELSE id[2]

\* The ids a caller may pass: those of the cached messages and one more.
CallIds == {<<Folder, n>> : n \in 1..(MaxTotal + 1)}

FlagCalls ==
    {[op |-> o, proto |-> p, tls |-> t, folder |-> Folder, max |-> 0, skip |-> 0,
      id |-> i, read |-> r, creds |-> c, offset |-> NoneNum, limit |-> NoneNum] :
        o \in {"set_flag", "delete"}, p \in {"imap", "pop3"}, t \in BOOLEAN,
        i \in CallIds, r \in BOOLEAN, c \in BOOLEAN}

\* if protocol == "imap" { if let (Some(host), Some(port), Some(password), Some(email)) = ..
has_server_part(c) == c.proto = "imap" /\ c.creds

\* mark_email_read / delete_email is invoked. The protocol is the one recorded
\* in the account file; without credentials or for POP3 only the local cache
\* is touched.
StartFlagOp ==
    /\ pc = "idle"
    /\ \E c \in FlagCalls :
          /\ (c.op = "delete" => c.read = FALSE)
          /\ call' = c
          /\ pc' = IF has_server_part(c) THEN "connect" ELSE "local"
    /\ UNCHANGED <<mbox, wire, trace, faults, store, loc, result, pgVars, psVars, acVars, txVars, srv, prev>>

\* session.select(&folder_name).map_err(..)?
SelectOp ==
    /\ pc = "select" /\ call.op # "sync"
    /\ Log(Sent("SELECT"))
    /\ \/ /\ pc' = "store"
          /\ \E b \in BOOLEAN : srv' = [srv EXCEPT !.renumbered = b]
          /\ UNCHANGED <<faults, result>>
       \/ /\ FailReturn("select", "select")
          /\ UNCHANGED srv
    /\ UNCHANGED <<call, mbox, wire, store, loc, pgVars, psVars, acVars, txVars, prev>>

\* The flag change a call asks for.
flag_change(c) ==
    IF c.op = "delete" THEN "+Deleted" ELSE IF c.read THEN "+Seen" ELSE "-Seen"

\* session.store(sequence_set, query) sends "STORE <sequence_set> <query>": the
\* server applies it to the message whose sequence number is the number.
store_target(number) == {n \in 1..Len(mbox) : n = number}

\* A STORE whose failure is ignored: the call goes on as if it had succeeded.
Store_unchecked ==
    /\ pc = "store"
    /\ Log(Ev("send", "STORE", uid_of_id(call.id), 0, NoName))
    /\ pc' = IF call.op = "delete" THEN "expunge" ELSE "logout"
    /\ \/ /\ srv' = [srv EXCEPT !.stored =
                        @ \cup {<<n, flag_change(call)>> : n \in store_target(uid_of_id(call.id))}]
          /\ UNCHANGED faults
       \/ /\ faults' = faults \cup {"store"}
          /\ UNCHANGED srv
    /\ UNCHANGED <<call, mbox, wire, store, loc, result, pgVars, psVars, acVars, txVars, prev>>

\* session.store(format!("{}", uid), "+FLAGS (\\Deleted)" | "+FLAGS (\\Seen)" | "-FLAGS (\\Seen)")?
Store ==
    /\ pc = "store"
    /\ Log(Ev("send", "STORE", uid_of_id(call.id), 0, NoName))
    /\ \/ /\ pc' = IF call.op = "delete" THEN "expunge" ELSE "logout"
          /\ srv' = [srv EXCEPT !.stored =
                        @ \cup {<<n, flag_change(call)>> : n \in store_target(uid_of_id(call.id))}]
          /\ UNCHANGED <<faults, result>>
       \/ /\ FailReturn("store", "store")
          /\ UNCHANGED srv
    /\ UNCHANGED <<call, mbox, wire, store, loc, pgVars, psVars, acVars, txVars, prev>>

\* session.expunge().map_err(..)?
Expunge ==
    /\ pc = "expunge"
    /\ Log(Sent("EXPUNGE"))
    /\ \/ /\ pc' = "logout"
          /\ srv' = [srv EXCEPT !.expunged = {st[1] : st \in {x \in srv.stored : x[2] = "+Deleted"}}]
          /\ UNCHANGED <<faults, result>>
       \/ /\ FailReturn("expunge", "expunge")
          /\ UNCHANGED srv
    /\ UNCHANGED <<call, mbox, wire, store, loc, pgVars, psVars, acVars, txVars, prev>>

\* session.logout().ok();
LogoutOp ==
    /\ pc = "logout" /\ call.op # "sync"
    /\ Log(Sent("LOGOUT"))
    /\ (UNCHANGED faults \/ faults' = faults \cup {"logout"})
    /\ pc' = "local"
    /\ UNCHANGED <<call, mbox, wire, store, loc, result, pgVars, psVars, acVars, txVars, srv, prev>>

\* if read { push "Seen" unless present } else { flags.retain(|f| f != "Seen") }
RECURSIVE without_seen(_)
without_seen(flags) ==
    IF flags = <<>> THEN <<>>
    ELSE IF Head(flags) = "Seen" THEN without_seen(Tail(flags))
         ELSE <<Head(flags)>> \o without_seen(Tail(flags))

\* An update that pushes "Seen" whether or not it is present.
set_seen_push_always(flags, read) ==
    IF read THEN Append(flags, "Seen") ELSE without_seen(flags)
set_seen(flags, read) ==
    IF read
    THEN IF \E i \in DOMAIN flags : flags[i] = "Seen" THEN flags ELSE Append(flags, "Seen")
    ELSE without_seen(flags)

\* for email in emails.iter_mut() { if email.id == email_id { ..; break; } }
RECURSIVE mark_first(_, _, _)
mark_first(entries, id, read) ==
    IF entries = <<>> THEN <<>>
    ELSE IF Head(entries).id = id
         THEN <<[Head(entries) EXCEPT !.flags = set_seen(@, read)]>> \o Tail(entries)
         ELSE <<Head(entries)>> \o mark_first(Tail(entries), id, read)

\* The flag update of mark_email_read applied again and again to the flags of
\* one index entry: tx_in holds the flags before the first call and after
\* each call, tx_out the `read` arguments of the calls.
FlagsInit ==
    /\ \E flags \in UNION {[1..n -> {"Seen", "Answered"}] : n \in 0..MaxFlags} :
            tx_in = <<flags>>
    /\ tx_pos = 0 /\ tx_out = <<>> /\ tx_pc = "flags"
    /\ OpIdle /\ PgIdle /\ PsIdle /\ AcIdle

SetFlagAgain ==
    /\ tx_pc = "flags" /\ tx_pos < MaxCalls
    /\ \E read \in BOOLEAN :
          /\ tx_in' = Append(tx_in, set_seen(Last(tx_in), read))
          /\ tx_out' = Append(tx_out, read)
    /\ tx_pos' = tx_pos + 1
    /\ UNCHANGED <<tx_pc, pgVars, psVars, acVars, opVars>>

FlagsNext == SetFlagAgain
SpecFlags == FlagsInit /\ [][FlagsNext]_vars

\* emails.retain(|e| e.id != email_id)
RECURSIVE retain_other(_, _)
retain_other(entries, id) ==
    IF entries = <<>> THEN <<>>
    ELSE IF Head(entries).id = id THEN retain_other(Tail(entries), id)
         ELSE <<Head(entries)>> \o retain_other(Tail(entries), id)

\* mark_email_read: the local cache update: read index.json, change the flags
\* of the entry, write index.json.
MarkLocal ==
    /\ pc = "local" /\ call.op = "set_flag"
    /\ IF store.index.exists
       THEN \/ /\ Log(Ev("write", "", 0, 0, <<"index.json", 0>>))
               /\ store' = [store EXCEPT !.index.entries = mark_first(@, call.id, call.read)]
               /\ Return(Ok(<<>>))
               /\ UNCHANGED faults
            \/ /\ FailReturn("fsread", "fsread")
               /\ UNCHANGED <<trace, store>>
            \/ /\ FailReturn("fswrite", "fswrite")
               /\ store' \in index_write_failed(store)
               /\ UNCHANGED trace
       ELSE /\ Return(Ok(<<>>))
            /\ UNCHANGED <<trace, store, faults>>
    /\ UNCHANGED <<call, mbox, wire, loc, pgVars, psVars, acVars, txVars, srv, prev>>

\* delete_email: the index update: read index.json, drop the entry, write the
\* index back when an entry was dropped.
DeleteIndex ==
    /\ pc = "local" /\ call.op = "delete"
    /\ IF store.index.exists
       THEN LET kept == retain_other(store.index.entries, call.id)
            IN  \/ /\ IF Len(kept) < Len(store.index.entries)
                      THEN /\ Log(Ev("write", "", 0, 0, <<"index.json", 0>>))
                           /\ store' = [store EXCEPT !.index.entries = kept]
                      ELSE UNCHANGED <<trace, store>>
                   /\ pc' = "local_files"
                   /\ UNCHANGED <<faults, result>>
                \/ /\ FailReturn("fsread", "fsread")
                   /\ UNCHANGED <<trace, store>>
                \/ /\ Len(kept) < Len(store.index.entries)
                   /\ FailReturn("fswrite", "fswrite")
                   /\ store' \in index_write_failed(store)
                   /\ UNCHANGED trace
       ELSE /\ pc' = "local_files"
            /\ UNCHANGED <<trace, store, faults, result>>
    /\ UNCHANGED <<call, mbox, wire, loc, pgVars, psVars, acVars, txVars, srv, prev>>

\* for eml_path in [{email_id}.eml, {uid}.eml] { if exists { fs::remove_file(..).ok(); } }
DeleteFiles ==
    /\ pc = "local_files"
    /\ LET names == {call.id, <<"", uid_of_id(call.id)>>}
       IN  \E removed \in SUBSET (names \cap FileNames(store)) :
              /\ store' = [store EXCEPT !.eml = {f \in @ : f.name \notin removed}]
              /\ faults' = IF removed = names \cap FileNames(store)
                           THEN faults ELSE faults \cup {"fsremove"}
    /\ Log(Ev("remove", "", 0, 0, call.id))
    /\ Return(Ok(<<>>))
    /\ UNCHANGED <<call, mbox, wire, loc, pgVars, psVars, acVars, txVars, srv, prev>>

-----------------------------------------------------------------------------
(* Specifications *)

-----------------------------------------------------------------------------
(* get_cached_emails / get_email_content *)

\* The slice taken the other way round: the first limit entries, then the
\* skip of offset.
get_cached_emails_take_then_skip(all_emails, offset, limit) ==
    LET taken == IF limit # NoneNum
                 THEN SubSeq(all_emails, 1, Min(limit, Len(all_emails)))
                 ELSE all_emails
    IN  SubSeq(taken, (IF offset = NoneNum THEN 0 ELSE offset) + 1, Len(taken))
\* all_emails.into_iter().skip(offset.unwrap_or(0)) [.take(limit)] .collect()
get_cached_emails(all_emails, offset, limit) ==
    LET skipped == SubSeq(all_emails, (IF offset = NoneNum THEN 0 ELSE offset) + 1,
                          Len(all_emails))
    IN  IF limit # NoneNum THEN SubSeq(skipped, 1, Min(limit, Len(skipped))) ELSE skipped

\* email_id.replace('/', "_").replace('\\', "_")
safe_id(email_id) == IF email_id[1] = "in/box" THEN <<"in_box", email_id[2]>> ELSE email_id

\* The ids get_email_content is asked for: the ids of the flag operations and
\* one with a path separator in it.
ReadIds == CallIds \cup {<<"in/box", 1>>}

ReadCalls ==
    {[NoCall EXCEPT !.op = "read_cached", !.offset = o, !.limit = l] :
        o \in {NoneNum} \cup 0..MaxOffset, l \in {NoneNum} \cup 0..MaxLimit}
    \cup {[NoCall EXCEPT !.op = "read_full", !.id = i] : i \in ReadIds}

\* get_cached_emails / get_email_content is invoked.
StartRead ==
    /\ pc = "idle"
    /\ \E c \in ReadCalls :
          /\ call' = c
          /\ pc' = IF c.op = "read_cached" THEN "cached" ELSE "content"
    /\ UNCHANGED <<mbox, wire, trace, faults, store, loc, result, pgVars, psVars, acVars, txVars, srv, prev>>

\* get_cached_emails: no index.json gives Ok(vec![]); a failed read or parse
\* of the file is returned as the error.
ReadCached ==
    /\ pc = "cached"
    /\ IF ~store.index.exists
       THEN Return(Ok(<<>>)) /\ UNCHANGED faults
       ELSE \/ /\ Return(Ok(get_cached_emails(store.index.entries, call.offset, call.limit)))
               /\ UNCHANGED faults
            \/ FailReturn("fsread", "fsread")
    /\ UNCHANGED <<call, mbox, wire, trace, store, loc, pgVars, psVars, acVars, txVars, srv, prev>>

\* The raw text of the file {name}.eml.
eml_raw(st, name) == (CHOOSE f \in st.eml : f.name = name).raw

\* The EmailMessage get_email_content builds from a parsed .eml file.
email_from_eml(raw, email_id, account_id) ==
    EmailMessage(IF message_id_of(raw) # NoName THEN message_id_of(raw) ELSE email_id,
                 0, NoneStr, <<"text", MsgIn(raw)>>, <<"html", MsgIn(raw)>>, account_id)

\* The EmailMessage stored in the legacy file {name}.json.
email_from_json(name) ==
    EmailMessage(name, name[2], NoneStr, <<"json", name[2]>>, NoneStr, Folder)

\* get_email_content: the .eml file when it exists and mail_parser parses it,
\* otherwise the legacy .json file when it exists, otherwise the error
\* "file does not exist".
ReadFull ==
    /\ pc = "content"
    /\ LET name == safe_id(call.id)
           has_eml == name \in FileNames(store)
           parsed == has_eml /\ mail_parses(eml_raw(store, name))
       IN  \/ /\ parsed
              /\ Return(Ok(<<email_from_eml(eml_raw(store, name), call.id, AccountDir)>>))
              /\ UNCHANGED faults
           \/ /\ ~parsed /\ name \in store.json
              /\ Return(Ok(<<email_from_json(name)>>))
              /\ UNCHANGED faults
           \/ /\ ~parsed /\ name \notin store.json
              /\ Return(Err("not_found"))
              /\ UNCHANGED faults
           \/ /\ has_eml \/ name \in store.json
              /\ FailReturn("fsread", "fsread")
    /\ UNCHANGED <<call, mbox, wire, trace, store, loc, pgVars, psVars, acVars, txVars, srv, prev>>

ReadNext == StartRead \/ ReadCached \/ ReadFull

SyncNext ==
    \/ StartSync
    \/ Connect \/ TlsHandshake
    \/ ReadGreeting \/ SendId \/ ReadIdLine \/ StartTls \/ Login
    \/ SelectSync \/ MkdirImap \/ Fetch \/ ParseImapMessage \/ LogoutSync
    \/ PopGreet \/ PopUser \/ PopUserResp \/ PopPass \/ PopPassResp
    \/ PopUidl \/ PopUidlResp \/ PopMkdir \/ PopRetr \/ PopRetrRead \/ PopSave
    \/ PopQuit

FlagNext ==
    \/ StartFlagOp
    \/ SelectOp \/ Store \/ Expunge \/ LogoutOp
    \/ MarkLocal \/ DeleteIndex \/ DeleteFiles

Init == OpInit /\ PgIdle /\ PsIdle /\ AcIdle /\ TxIdle
Next == SyncNext \/ FlagNext \/ ReadNext
Spec == Init /\ [][Next]_vars

\* parse_uidl_response on its own: wire holds the text handed to the function,
\* loc.page what it returns.
UidlLines ==
    {Line(t, 0) : t \in {"+OK", ".", "blank", "nonnum"}}
    \cup {Line(t, n) : t \in {"uidl", "one"}, n \in 1..MaxTotal}

UidlInit ==
    /\ call = NoCall /\ pc = "uidl_in" /\ mbox = <<>> /\ trace = <<>>
    /\ wire \in UNION {[1..n -> UidlLines] : n \in 0..MaxUidlLines}
    /\ faults = {} /\ store = EmptyStore /\ loc = NoLoc /\ result = NoResult
    /\ srv = NoSrv /\ prev = NoPrev
    /\ PgIdle /\ PsIdle /\ AcIdle /\ TxIdle

ParseUidl ==
    /\ pc = "uidl_in"
    /\ loc' = [loc EXCEPT !.page = parse_uidl_response(wire)]
    /\ pc' = "uidl_out"
    /\ UNCHANGED <<call, mbox, wire, trace, faults, store, result, pgVars, psVars, acVars, txVars, srv, prev>>

UidlNext == ParseUidl
SpecUidl == UidlInit /\ [][UidlNext]_vars

-----------------------------------------------------------------------------
(* The account: session kind, transport and storage directory *)

NoneOpt == [some |-> FALSE, v |-> ""]
Some(v) == [some |-> TRUE, v |-> v]

\* ImapAccount: account_id and protocol are Option<String>.
Accounts ==
    [account_id : {NoneOpt, Some("a"), Some("b")}, email : {"u@h", "v@h"},
     protocol : {NoneOpt, Some("imap"), Some("pop3"), Some("imaps")},
     imap_port : {110, 143, 993, 995}]

\* email.replace("@", "_at_")
replace_at(email) ==
    IF email = "u@h" THEN "u_at_h" ELSE IF email = "v@h" THEN "v_at_h" ELSE email

\* Every account stored straight under the vault's Mailbox directory.
account_dir_of_vault(account) == "."
\* account_id.unwrap_or_else(|| email.replace("@", "_at_"))
account_dir(account) ==
    IF account.account_id.some THEN account.account_id.v ELSE replace_at(account.email)

\* imap_sync: account.protocol.unwrap_or("imap"), then `if protocol == "pop3"`.
sync_session_kind(account) ==
    IF account.protocol.some /\ account.protocol.v = "pop3" THEN "pop3" ELSE "imap"

\* imap_sync: let use_tls = port == 993 || port == 995;
sync_use_tls(port) == port = 993 \/ port = 995

\* delete_email / mark_email_read: the "protocol" string of
\* .lifeos/emails/{account_id}.json, "imap" when the file or the field is
\* missing or the file cannot be read.
stored_protocol(account, file_ok) ==
    IF file_ok /\ account.protocol.some THEN account.protocol.v ELSE "imap"

\* delete_email / mark_email_read: let use_tls = *port == 993;
flag_use_tls(port) == port = 993

\* imap_sync is invoked for the account.
DispatchSync ==
    /\ pc = "idle"
    /\ call' = [NoCall EXCEPT !.op = "sync", !.proto = sync_session_kind(accounts[1]),
                              !.tls = sync_use_tls(accounts[1].imap_port),
                              !.creds = TRUE]
    /\ pc' = "connect"
    /\ UNCHANGED <<mbox, wire, trace, faults, store, loc, result, pgVars, psVars, acVars, txVars, srv, prev>>

\* mark_email_read / delete_email is invoked for the account.
DispatchFlagOp ==
    /\ pc = "idle"
    /\ \E o \in {"set_flag", "delete"}, file_ok \in BOOLEAN, creds \in BOOLEAN :
          LET c == [NoCall EXCEPT !.op = o, !.id = <<Folder, 1>>,
                                  !.proto = stored_protocol(accounts[1], file_ok),
                                  !.tls = flag_use_tls(accounts[1].imap_port),
                                  !.creds = creds]
          IN  /\ call' = c
              /\ pc' = IF has_server_part(c) THEN "connect" ELSE "local"
    /\ UNCHANGED <<mbox, wire, trace, faults, store, loc, result, pgVars, psVars, acVars, txVars, srv, prev>>

DispatchInit ==
    /\ accounts \in [{1} -> Accounts] /\ wk = <<>> /\ fs = EmptyFs
    /\ call = NoCall /\ pc = "idle" /\ mbox = <<>> /\ wire = <<>> /\ trace = <<>>
    /\ faults = {} /\ store = EmptyStore /\ loc = NoLoc /\ result = NoResult
    /\ srv = NoSrv /\ prev = NoPrev
    /\ PgIdle /\ PsIdle /\ TxIdle

DispatchNext == DispatchSync \/ DispatchFlagOp
SpecDispatch == DispatchInit /\ [][DispatchNext]_vars

-----------------------------------------------------------------------------
(* Two imap_sync calls at the same time *)

Workers == {1, 2}

\* The raw text of message n of the mailbox of worker w's account.
AccountRaw(w, n) == <<Line(accounts[w].email, n)>>

\* {vault}/Mailbox/{account_dir}/{folder}_{uid}.eml
EmlPath(w, n) == <<account_dir(accounts[w]), <<Folder, n>>>>

\* fs::write(eml_path, raw) on the shared file system.
fs_write_at(f, path, raw) ==
    [f EXCEPT !.files = {x \in @ : x.path # path} \cup {[path |-> path, raw |-> raw]}]

\* tokio::task::spawn_blocking: the worker computes its account_dir; an empty
\* page returns before anything is written.
WorkerStart(w) ==
    /\ wk[w].pc = "start"
    /\ wk' = [wk EXCEPT ![w].pc = IF wk[w].total = 0 THEN "done" ELSE "mkdir"]
    /\ UNCHANGED <<accounts, fs, pgVars, psVars, txVars, opVars>>

\* fs::create_dir_all(&emails_dir).ok()
WorkerMkdir(w) ==
    /\ wk[w].pc = "mkdir"
    /\ fs' = [fs EXCEPT !.dirs = @ \cup {account_dir(accounts[w])}]
    /\ wk' = [wk EXCEPT ![w].pc = "write", ![w].i = 1]
    /\ UNCHANGED <<accounts, pgVars, psVars, txVars, opVars>>

\* One turn of the loop of parse_imap_messages: fs::write of the .eml file.
WorkerWrite(w) ==
    /\ wk[w].pc = "write"
    /\ fs' = fs_write_at(fs, EmlPath(w, wk[w].i), AccountRaw(w, wk[w].i))
    /\ wk' = [wk EXCEPT ![w].written = @ \cup {EmlPath(w, wk[w].i)},
                        ![w].i = @ + 1,
                        ![w].pc = IF wk[w].i = wk[w].total THEN "done" ELSE "write"]
    /\ UNCHANGED <<accounts, pgVars, psVars, txVars, opVars>>

AccountsInit ==
    /\ accounts \in [Workers -> {a \in Accounts : ~a.protocol.some /\ a.imap_port = 993}]
    /\ wk \in [Workers -> [pc : {"start"}, total : 0..MaxTotal, i : {0}, written : {{}}]]
    /\ fs = EmptyFs
    /\ OpIdle /\ PgIdle /\ PsIdle /\ TxIdle

AccountsNext == \E w \in Workers : WorkerStart(w) \/ WorkerMkdir(w) \/ WorkerWrite(w)
SpecAccounts == AccountsInit /\ [][AccountsNext]_vars

-----------------------------------------------------------------------------
(* mark_email_read and delete_email at the same time on one account *)

\* Both commands are async commands, which the runtime runs on its worker
\* threads: worker 1 runs mark_email_read, worker 2 delete_email, both on the
\* local cache of the same account (no server part: a POP3 account). A worker
\* holds the id of its call, the Vec it parsed from index.json and its result.
Marker == 1
Deleter == 2

\* fs::read_to_string(&index_path)?; serde_json::from_str(&content)?; the
\* change is made on the Vec. A file that another fs::write has truncated and
\* not yet filled does not parse.
IndexRead(w) ==
    /\ wk[w].pc = "read"
    /\ IF ~store.index.exists
       THEN wk' = [wk EXCEPT ![w].pc = IF w = Marker THEN "done" ELSE "files"]
       ELSE IF store.index.torn
       THEN wk' = [wk EXCEPT ![w].pc = "done", ![w].res = "err"]
       ELSE LET emails == IF w = Marker
                          THEN mark_first(store.index.entries, wk[w].id, wk[w].read)
                          ELSE retain_other(store.index.entries, wk[w].id)
            IN  wk' = [wk EXCEPT ![w].emails = emails,
                                 ![w].pc = IF w = Deleter /\ Len(emails) = Len(store.index.entries)
                                           THEN "files" ELSE "write"]
    /\ UNCHANGED <<store, call, pc, mbox, wire, trace, faults, loc, result, srv, prev,
                   accounts, fs, pgVars, psVars, txVars>>

\* fs::write(&index_path, index_json)?: the file is opened and truncated (or
\* the call fails and the file is as it was) ..
IndexTruncate(w) ==
    /\ wk[w].pc = "write"
    /\ \/ /\ store' = [store EXCEPT !.index = [exists |-> TRUE, entries |-> <<>>, torn |-> TRUE]]
          /\ wk' = [wk EXCEPT ![w].pc = "fill"]
       \/ /\ wk' = [wk EXCEPT ![w].pc = "done", ![w].res = "err"]
          /\ UNCHANGED store
    /\ UNCHANGED <<call, pc, mbox, wire, trace, faults, loc, result, srv, prev,
                   accounts, fs, pgVars, psVars, txVars>>

\* .. and the serialized Vec is written into it.
IndexFill(w) ==
    /\ wk[w].pc = "fill"
    /\ store' = [store EXCEPT !.index = [exists |-> TRUE, entries |-> wk[w].emails, torn |-> FALSE]]
    /\ wk' = [wk EXCEPT ![w].pc = IF w = Marker THEN "done" ELSE "files"]
    /\ UNCHANGED <<call, pc, mbox, wire, trace, faults, loc, result, srv, prev,
                   accounts, fs, pgVars, psVars, txVars>>

\* delete_email: for eml_path in [{email_id}.eml, {uid}.eml] { remove_file(..).ok() }; Ok(())
RemoveFiles ==
    /\ wk[Deleter].pc = "files"
    /\ LET names == {wk[Deleter].id, <<"", uid_of_id(wk[Deleter].id)>>}
       IN  store' = [store EXCEPT !.eml = {f \in @ : f.name \notin names}]
    /\ wk' = [wk EXCEPT ![Deleter].pc = "done"]
    /\ UNCHANGED <<call, pc, mbox, wire, trace, faults, loc, result, srv, prev,
                   accounts, fs, pgVars, psVars, txVars>>

RaceInit ==
    /\ mbox \in Mailboxes
    /\ store = CachedStore(mbox)
    /\ \E a, b \in CallIds, read \in BOOLEAN :
          /\ a # b
          /\ wk = <<[pc |-> "read", id |-> a, read |-> read, emails |-> <<>>, res |-> "ok"],
                    [pc |-> "read", id |-> b, read |-> FALSE, emails |-> <<>>, res |-> "ok"]>>
    /\ call = NoCall /\ pc = "off" /\ wire = <<>> /\ trace = <<>> /\ faults = {}
    /\ loc = NoLoc /\ result = NoResult /\ srv = NoSrv /\ prev = NoPrev
    /\ accounts = <<>> /\ fs = EmptyFs
    /\ PgIdle /\ PsIdle /\ TxIdle

RaceNext ==
    \/ \E w \in {Marker, Deleter} : IndexRead(w) \/ IndexTruncate(w) \/ IndexFill(w)
    \/ RemoveFiles
SpecRace == RaceInit /\ [][RaceNext]_vars

-----------------------------------------------------------------------------
(* delete_email on the cache of a POP3 account *)

\* The account directory after a POP3 sync of two messages (lines 631-636):
\* message 1 has no Message-ID, so its id is "{account_dir}_1" and its raw
\* bytes are in "1.eml"; message 2 has a Message-ID that ends in "_k", written
\* <<"mid_", k>>, which is its id and the name of its file.
Pop3Cached(k) ==
    [dir |-> TRUE,
     eml |-> {[name |-> <<"", 1>>, raw |-> RawOf(1)],
              [name |-> <<"mid_", k>>, raw |-> RawOf(2)]},
     json |-> {},
     index |-> [exists |-> TRUE,
                entries |-> <<EmailMessage(<<"mid_", k>>, 2, <<"some", ServerUidl(2)>>,
                                           NoneStr, NoneStr, AccountDir),
                              EmailMessage(<<AccountDir, 1>>, 1, <<"some", ServerUidl(1)>>,
                                           NoneStr, NoneStr, AccountDir)>>,
                torn |-> FALSE]]

\* delete_email alone (no mark_email_read is running): prev.store keeps the
\* directory as it was when the call began.
DeleteInit ==
    /\ mbox \in Mailboxes
    /\ store \in {CachedStore(mbox)} \cup {Pop3Cached(k) : k \in 1..MaxTotal}
    /\ prev = [NoPrev EXCEPT !.store = store]
    /\ \E b \in CallIds \cup {<<AccountDir, 1>>} \cup {<<"mid_", k>> : k \in 1..MaxTotal} :
          wk = <<[pc |-> "done", id |-> b, read |-> FALSE, emails |-> <<>>, res |-> "ok"],
                 [pc |-> "read", id |-> b, read |-> FALSE, emails |-> <<>>, res |-> "ok"]>>
    /\ call = NoCall /\ pc = "off" /\ wire = <<>> /\ trace = <<>> /\ faults = {}
    /\ loc = NoLoc /\ result = NoResult /\ srv = NoSrv
    /\ accounts = <<>> /\ fs = EmptyFs
    /\ PgIdle /\ PsIdle /\ TxIdle

DeleteNext ==
    IndexRead(Deleter) \/ IndexTruncate(Deleter) \/ IndexFill(Deleter) \/ RemoveFiles
SpecDelete == DeleteInit /\ [][DeleteNext]_vars

-----------------------------------------------------------------------------
(* read_imap_line and the ID handshake of the TLS path *)

CR == "\\r"
LF == "\\n"

\* line.len() >= 2 && line[len - 2] == b'\r' && line[len - 1] == b'\n'
ends_crlf(line) == Len(line) >= 2 /\ line[Len(line) - 1] = CR /\ line[Len(line)] = LF

\* The two `break`s of the loop of read_imap_line, tested after the push.
line_complete(line) == ends_crlf(line) \/ Len(line) > LineCap

\* A test for the tag anywhere in the line.
contains_tag(line) == \E i \in DOMAIN line : line[i] = "T"
\* line_str.starts_with("A000 "): "T" stands for the tag and its space.
starts_with_tag(line) == line # <<>> /\ line[1] = "T"

\* read_imap_line on its own: one turn of its loop. read_exact fails when the
\* stream delivers no further byte.
LineByte ==
    /\ tx_pc = "line"
    /\ IF tx_pos = Len(tx_in)
       THEN /\ tx_pc' = "err"
            /\ tx_out' = <<>>
            /\ UNCHANGED tx_pos
       ELSE /\ tx_pos' = tx_pos + 1
            /\ tx_out' = Append(tx_out, tx_in[tx_pos + 1])
            /\ tx_pc' = IF line_complete(Append(tx_out, tx_in[tx_pos + 1])) THEN "done" ELSE "line"
    /\ UNCHANGED <<tx_in, pgVars, psVars, acVars, opVars>>

LineInit ==
    /\ tx_in \in UNION {[1..n -> {"a", CR, LF}] : n \in 0..(LineCap + 2)}
    /\ tx_pos = 0 /\ tx_out = <<>> /\ tx_pc = "line"
    /\ OpIdle /\ PgIdle /\ PsIdle /\ AcIdle

LineNext == LineByte
SpecLine == LineInit /\ [][LineNext]_vars

\* let greeting = read_imap_line(&mut tls_stream)?: one turn of the loop; the
\* complete line is kept as the greeting and the ID command is written.
GreetingByte ==
    /\ tx_pc = "greeting"
    /\ IF tx_pos = Len(tx_in)
       THEN /\ tx_pc' = "err"
            /\ UNCHANGED <<tx_pos, tx_out, ps_prefix>>
       ELSE LET line == Append(tx_out, tx_in[tx_pos + 1])
            IN  /\ tx_pos' = tx_pos + 1
                /\ IF line_complete(line)
                   THEN tx_out' = <<>> /\ ps_prefix' = line /\ tx_pc' = "id"
                   ELSE tx_out' = line /\ UNCHANGED <<ps_prefix, tx_pc>>
    /\ UNCHANGED <<tx_in, ps_pos, ps_done, ps_inner, ps_ipos, ps_out, ps_written,
                   pgVars, acVars, opVars>>

\* loop { let line = read_imap_line(..)?; if line_str.starts_with("A000 ") { break; } }
\* let prefix_stream = PrefixStream::new(tls_stream, greeting): one turn of
\* the inner loop; after the tagged line the client gets the PrefixStream,
\* whose inner stream delivers what the server sends from here on.
IdByte ==
    /\ tx_pc = "id"
    /\ IF tx_pos = Len(tx_in)
       THEN /\ tx_pc' = "err"
            /\ UNCHANGED <<tx_pos, tx_out, ps_inner, ps_done>>
       ELSE LET line == Append(tx_out, tx_in[tx_pos + 1])
            IN  /\ tx_pos' = tx_pos + 1
                /\ IF line_complete(line) /\ starts_with_tag(line)
                   THEN /\ tx_out' = <<>>
                        /\ ps_inner' = SubSeq(tx_in, tx_pos + 2, Len(tx_in))
                        /\ ps_done' = FALSE
                        /\ tx_pc' = "client"
                   ELSE /\ tx_out' = IF line_complete(line) THEN <<>> ELSE line
                        /\ UNCHANGED <<ps_inner, ps_done, tx_pc>>
    /\ UNCHANGED <<tx_in, ps_prefix, ps_pos, ps_ipos, ps_out, ps_written,
                   pgVars, acVars, opVars>>

\* The imap client reads from the PrefixStream; it reads through a buffered
\* reader, whose buffer is never empty.
ClientRead ==
    /\ tx_pc = "client"
    /\ \E len \in 1..MaxBuf : PsRead(len)

\* The lines of the server: the greeting, the untagged lines of the ID
\* response, its tagged line, and what the server sends afterwards.
GreetingLines == {<<"g", CR, LF>>, <<CR, LF>>}
UntaggedLines == {<<"u", CR, LF>>, <<"u", "T", CR, LF>>, <<CR, LF>>}
TaggedLines == {<<"T", CR, LF>>, <<"T", "k", CR, LF>>}

RECURSIVE Concat(_)
Concat(seqs) == IF seqs = <<>> THEN <<>> ELSE Head(seqs) \o Concat(Tail(seqs))

HandshakeInit ==
    /\ \E g \in GreetingLines, t \in TaggedLines,
          u \in UNION {[1..n -> UntaggedLines] : n \in 0..MaxIdLines},
          rest \in UNION {[1..n -> {"x", "T"}] : n \in 0..MaxInner} :
            tx_in = g \o Concat(u) \o t \o rest
    /\ tx_pos = 0 /\ tx_out = <<>> /\ tx_pc = "greeting"
    /\ OpIdle /\ PgIdle /\ PsIdle /\ AcIdle

HandshakeNext == GreetingByte \/ IdByte \/ ClientRead
SpecHandshake == HandshakeInit /\ [][HandshakeNext]_vars

-----------------------------------------------------------------------------
(* decode_mime_header *)

\* The text is a sequence of characters. "g" stands for a group of base64
\* digits and "d" for the bytes it encodes, "!" for a character outside the
\* base64 alphabet, "4" and "1" for hexadecimal digits, "xFF" for a byte that
\* is not valid UTF-8 and "uFFFD" for the replacement character.
RECURSIVE Flatten(_)
Flatten(words) == IF words = <<>> THEN <<>> ELSE Head(words).text \o Flatten(Tail(words))

\* An encoded-word =?c?{encoding}?{payload}?= and, for the claims, what
\* RFC 2047 decoding makes of it.
EncodedWord(encoding, payload, decoded) ==
    [text |-> <<"=", "?", "c", "?", encoding, "?">> \o payload \o <<"?", "=">>,
     decoded |-> decoded]
Verbatim(w) == [w EXCEPT !.decoded = w.text]

\* The words a header is made of.
MimeWords ==
    {[text |-> <<"a">>, decoded |-> <<"a">>],
     EncodedWord("B", <<"g">>, <<"d">>),
     EncodedWord("b", <<"g", "g">>, <<"d", "d">>),
     Verbatim(EncodedWord("B", <<"g", "!">>, <<>>)),
     EncodedWord("Q", <<"a", "_", "a">>, <<"a", " ", "a">>),
     EncodedWord("q", <<"a", "=", "4", "1">>, <<"a", "A">>),
     EncodedWord("Q", <<"=", "4", "1", "a">>, <<"A", "a">>),
     Verbatim(EncodedWord("X", <<"a">>, <<>>))}

\* s.find(two characters) at or after position from: 0 when there is none.
find2(str, a, b, from) ==
    LET hits == {i \in from..(Len(str) - 1) : str[i] = a /\ str[i + 1] = b}
    IN  IF hits = {} THEN 0 ELSE CHOOSE i \in hits : \A j \in hits : i <= j

\* s.find(one character) at or after position from: 0 when there is none.
find1(str, a, from) ==
    LET hits == {i \in from..Len(str) : str[i] = a}
    IN  IF hits = {} THEN 0 ELSE CHOOSE i \in hits : \A j \in hits : i <= j

\* encoded.splitn(3, '?').collect()
splitn3(encoded) ==
    LET q1 == find1(encoded, "?", 1)
        q2 == IF q1 = 0 THEN 0 ELSE find1(encoded, "?", q1 + 1)
    IN  IF q1 = 0 THEN <<encoded>>
        ELSE IF q2 = 0
             THEN <<SubSeq(encoded, 1, q1 - 1), SubSeq(encoded, q1 + 1, Len(encoded))>>
             ELSE <<SubSeq(encoded, 1, q1 - 1), SubSeq(encoded, q1 + 1, q2 - 1),
                    SubSeq(encoded, q2 + 1, Len(encoded))>>

\* parts[1].to_uppercase()
to_uppercase(str) ==
    [i \in DOMAIN str |-> IF str[i] = "b" THEN "B" ELSE IF str[i] = "q" THEN "Q" ELSE str[i]]

NoBytes == [some |-> FALSE, v |-> <<>>]
SomeBytes(v) == [some |-> TRUE, v |-> v]

\* base64 STANDARD.decode(text).ok()
base64_decode(text) ==
    IF \A i \in DOMAIN text : text[i] = "g"
    THEN SomeBytes([i \in DOMAIN text |-> "d"])
    ELSE NoBytes

IsHex(c) == c \in {"4", "1"}
\* u8::from_str_radix(two digits, 16)
from_str_radix(h, l) == IF h = "4" /\ l = "1" THEN "A" ELSE "xFF"

\* decode_quoted_printable_header, from position i (1-based) on.
RECURSIVE qp_from(_, _)
qp_from(input, i) ==
    IF i > Len(input) THEN <<>>
    ELSE IF input[i] = "=" /\ i + 2 <= Len(input) /\ IsHex(input[i + 1]) /\ IsHex(input[i + 2])
         THEN <<from_str_radix(input[i + 1], input[i + 2])>> \o qp_from(input, i + 3)
         ELSE <<(IF input[i] = "_" THEN " " ELSE input[i])>> \o qp_from(input, i + 1)
decode_quoted_printable_header(input) == SomeBytes(qp_from(input, 1))

\* String::from_utf8_lossy(&bytes)
from_utf8_lossy(bytes) ==
    [i \in DOMAIN bytes |-> IF bytes[i] = "xFF" THEN "uFFFD" ELSE bytes[i]]

\* str::trim
RECURSIVE trim_start(_)
trim_start(str) ==
    IF str # <<>> /\ Head(str) = " " THEN trim_start(Tail(str)) ELSE str
trim(str) == Reverse(trim_start(Reverse(trim_start(str))))

\* if !input.contains("=?") { return input.to_string(); } let mut result = input.to_string();
MimeStart ==
    /\ tx_pc = "start"
    /\ tx_out' = Flatten(tx_in)
    /\ tx_pc' = IF find2(Flatten(tx_in), "=", "?", 1) = 0 THEN "done" ELSE "loop"
    /\ UNCHANGED <<tx_in, tx_pos, pgVars, psVars, acVars, opVars>>

\* One turn of `while let Some(start) = result.find("=?")`: the word is
\* replaced by its decoded text and the loop goes on, or the loop is left
\* (no "?=" after the start, fewer than three parts, nothing decoded) and the
\* function returns result.trim().
MimeDecodeWord ==
    /\ tx_pc = "loop"
    /\ LET text == tx_out
           start == find2(text, "=", "?", 1)
           end == IF start = 0 THEN 0 ELSE find2(text, "?", "=", start + 2)
           parts == IF end = 0 THEN <<>> ELSE splitn3(SubSeq(text, start + 2, end - 1))
           encoding == IF Len(parts) = 3 THEN to_uppercase(parts[2]) ELSE <<>>
           decoded_bytes == IF Len(parts) # 3 THEN NoBytes
                            ELSE IF encoding = <<"B">> THEN base64_decode(parts[3])
                            ELSE IF encoding = <<"Q">> THEN decode_quoted_printable_header(parts[3])
                            ELSE NoBytes
       IN  IF decoded_bytes.some
           THEN /\ tx_out' = SubSeq(text, 1, start - 1) \o from_utf8_lossy(decoded_bytes.v)
                              \o SubSeq(text, end + 2, Len(text))
                /\ UNCHANGED tx_pc
           ELSE /\ tx_out' = trim(text)
                /\ tx_pc' = "done"
    /\ UNCHANGED <<tx_in, tx_pos, pgVars, psVars, acVars, opVars>>

MimeInit ==
    /\ tx_in \in UNION {[1..n -> MimeWords] : n \in 0..MaxWords}
    /\ tx_pos = 0 /\ tx_out = <<>> /\ tx_pc = "start"
    /\ OpIdle /\ PgIdle /\ PsIdle /\ AcIdle

MimeNext == MimeStart \/ MimeDecodeWord
SpecMime == MimeInit /\ [][MimeNext]_vars

\* The caller invokes imap_sync once more with the same arguments, on a new
\* connection, after the first call returned Ok.
Again ==
    /\ pc = "done" /\ call.op = "sync" /\ result.kind = "ok" /\ ~prev.set
    /\ prev' = [set |-> TRUE, result |-> result, store |-> store, order |-> loc.fetched]
    /\ pc' = "connect"
    /\ wire' = <<>> /\ trace' = <<>> /\ faults' = {} /\ loc' = NoLoc /\ result' = NoResult
    /\ UNCHANGED <<call, mbox, store, srv, pgVars, psVars, acVars, txVars>>

\* The mailbox is unchanged between the two calls: the folder has the UID
\* numbering and the FETCH response the order it had in the first call.
SameMailbox ==
    prev.set =>
        /\ srv'.renumbered = srv.renumbered
        /\ pc = "fetch" => loc'.fetched = prev.order

\* Two calls of imap_sync, every I/O step succeeding.
TwiceNext ==
    \/ SyncNext /\ faults' = {} /\ SameMailbox
    \/ Again
SpecTwice == Init /\ [][TwiceNext]_vars

PagesInit == PgInit /\ PsIdle /\ OpIdle /\ AcIdle /\ TxIdle
PagesNext == PgFetch \/ PgNextPage
SpecPages == PagesInit /\ [][PagesNext]_vars

PrefixInit == PsInit /\ PgIdle /\ OpIdle /\ AcIdle /\ TxIdle
PrefixNext ==
    \/ \E len \in 0..MaxBuf : PsRead(len)
    \/ \E b \in {100} : PsWrite(b)
SpecPrefix == PrefixInit /\ [][PrefixNext]_vars

-----------------------------------------------------------------------------
(* Claims about the fetch range (SpecPages) *)

PageSet(r) == r[1]..r[2]

PagingComplete ==
    \/ pg_pc = "end"
    \/ pg_pc = "fetched" /\ pg_skip + pg_max >= pg_total

\* C1: for every total >= 1, skip < total and max_emails (0 and values above
\* total included) the requested range is [fetch_start, fetch_end] with
\* fetch_end = total - skip and fetch_start = max(1, fetch_end - max_emails + 1),
\* computed over the integers (no wrap-around).
C1_RangeFormula ==
    pg_pc = "fetched" =>
        LET r == Last(pg_pages)
        IN  /\ r[2] = pg_total - pg_skip
            /\ r[1] = Max(1, r[2] - pg_max + 1)

\* C2: for max_emails >= 1 the pages requested with skip = 0, max, 2*max, ...
\* each hold min(max, total - skip) sequence numbers, the first ends at total
\* (the newest), each later one ends one below the start of the page before
\* it, they are pairwise disjoint, and once the paging is complete they cover
\* 1..total exactly.
C2_PagesPartition ==
    (pg_skip0 = 0 /\ pg_max >= 1) =>
        /\ \A i \in DOMAIN pg_pages :
              LET r == pg_pages[i]
              IN  /\ r[1] >= 1
                  /\ r[2] - r[1] + 1 = Min(pg_max, pg_total - (i - 1) * pg_max)
                  /\ (i = 1 => r[2] = pg_total)
                  /\ (i > 1 => r[2] = pg_pages[i - 1][1] - 1)
        /\ \A i, j \in DOMAIN pg_pages :
              i < j => PageSet(pg_pages[i]) \cap PageSet(pg_pages[j]) = {}
        /\ PagingComplete =>
              UNION {PageSet(pg_pages[i]) : i \in DOMAIN pg_pages} = 1..pg_total

\* A paging from skip = 0 that needed three pages, the last one short.
C2_Witness ==
    /\ pg_skip0 = 0 /\ pg_max >= 2 /\ pg_pc = "end"
    /\ Len(pg_pages) >= 3
    /\ Last(pg_pages)[2] - Last(pg_pages)[1] + 1 < pg_max

-----------------------------------------------------------------------------
(* Claims about PrefixStream (SpecPrefix) *)

\* C5: whatever the prefix, the inner content and the lengths of the read
\* buffers (zero included), the bytes read() has returned so far are a prefix
\* of (prefix followed by the inner stream's bytes): no inner byte comes before
\* the whole prefix, no prefix byte is lost or repeated.
C5_PrefixThenInner == IsPrefixOf(ps_out, ps_prefix \o ps_inner)

-----------------------------------------------------------------------------
(* Claims about one call (Spec) *)

IsSync == call.op = "sync"
Returned == pc = "done"

\* The failures that do not count against the primary operation.
CleanupFaults == {"logout", "quit"}

\* The account directory is as it was when the call began.
StoreUntouched == store \in {EmptyStore, CachedStore(mbox)}

NoFileWritten == Events("write") = {} /\ Events("mkdir") = {} /\ StoreUntouched

\* The sequence numbers of a result list (uid = ServerUid(seq) for IMAP,
\* uid = seq for POP3).
SeqOfUid(uid) == CHOOSE n \in 1..MaxTotal : ServerUid(n) = uid

\* C3: for both protocols, when the mailbox is empty or skip >= total, no
\* FETCH and no RETR is sent, no file or directory of the account directory is
\* created or written, a sync never returns a non-empty list, and a sync that
\* got its SELECT or UIDL through with no failure of the primary operation
\* returns Ok with an empty list.
C3_EmptyPage ==
    (IsSync /\ (Len(mbox) = 0 \/ call.skip >= Len(mbox))) =>
        /\ Sends("FETCH") = {} /\ Sends("RETR") = {}
        /\ NoFileWritten
        /\ result.emails = <<>>
        /\ (Returned /\ faults \subseteq CleanupFaults
              /\ (Sends("SELECT") # {} \/ Sends("UIDL") # {}))
           => result = Ok(<<>>)

\* A POP3 sync of a non-empty mailbox with skip >= total that returned Ok([]).
C3_Witness ==
    /\ IsSync /\ Returned /\ call.proto = "pop3"
    /\ Len(mbox) >= 1 /\ call.skip >= Len(mbox) /\ call.max >= 1
    /\ Sends("UIDL") # {} /\ Sends("QUIT") # {}
    /\ result = Ok(<<>>)

\* The same for IMAP (skip = total).
C3_WitnessImap ==
    /\ IsSync /\ Returned /\ call.proto = "imap"
    /\ Len(mbox) >= 1 /\ call.skip = Len(mbox) /\ call.max >= 1
    /\ Sends("SELECT") # {}
    /\ result = Ok(<<>>)

Ascending(s) == \A i \in 1..(Len(s) - 1) : s[i] < s[i + 1]

\* C4: the list an IMAP sync returns is the FETCH response reversed: entry i
\* of the result is the message the server sent at position k + 1 - i; when the
\* server answered in ascending sequence order the result is strictly
\* descending and holds exactly the messages of the requested range, each once.
C4_ReversedFetch ==
    (IsSync /\ call.proto = "imap" /\ Returned /\ result.kind = "ok") =>
        LET k == Len(loc.fetched)
            out == result.emails
        IN  /\ Len(out) = k
            /\ \A i \in 1..k : out[i].uid = ServerUid(loc.fetched[k + 1 - i])
            /\ Ascending(loc.fetched) =>
                  /\ \A i \in 1..(k - 1) : SeqOfUid(out[i].uid) > SeqOfUid(out[i + 1].uid)
                  /\ {SeqOfUid(out[i].uid) : i \in 1..k} = Range(loc.fetched)
                  /\ Sends("FETCH") # {} =>
                        Range(loc.fetched) = loc.range[1]..loc.range[2]

\* An IMAP sync that returned a page of two messages sent in ascending order.
C4_Witness ==
    /\ IsSync /\ call.proto = "imap" /\ Returned /\ result.kind = "ok"
    /\ Len(loc.fetched) >= 2 /\ Ascending(loc.fetched)
    /\ Len(result.emails) >= 2

\* Connection, TLS, authentication and folder-selection failures.
SessionFaults == {"connect", "tls", "starttls", "login", "user", "pass", "select"}

\* C6: when connect, the TLS handshake, the authentication (LOGIN, USER, PASS)
\* or SELECT fails, the sync returns an error and no list, has connected at
\* most once and sent each of LOGIN, USER, PASS at most once, and has written
\* no .eml file and no index.json.
C6_SessionFailureFatal ==
    (IsSync /\ faults \cap SessionFaults # {}) =>
        /\ Returned => (result.kind = "err" /\ result.emails = <<>>)
        /\ Cardinality(Events("connect")) <= 1
        /\ \A cmd \in {"LOGIN", "USER", "PASS"} : Cardinality(Sends(cmd)) <= 1
        /\ NoFileWritten

\* A sync that ended because SELECT failed after a successful login.
C6_Witness ==
    /\ IsSync /\ Returned /\ "select" \in faults
    /\ Len(mbox) >= 1 /\ call.skip = 0 /\ call.max >= 1
    /\ result.kind = "err"

\* The page the call selected: the FETCH response, resp. the UIDL page.
PageSeqs ==
    IF call.proto = "imap" THEN Reverse(loc.fetched)
    ELSE [i \in DOMAIN loc.page |-> loc.page[i][1]]

\* C7: a sync whose I/O steps all succeeded returns Ok with exactly one
\* message per message of the page, in page order, whichever of the messages
\* fail structured parsing.
C7_ParseFailureKeepsBatch ==
    (IsSync /\ Returned /\ faults \subseteq CleanupFaults) =>
        /\ result.kind = "ok"
        /\ Len(result.emails) = Len(PageSeqs)
        /\ \A i \in DOMAIN PageSeqs :
              result.emails[i].uid =
                  (IF call.proto = "imap" THEN ServerUid(PageSeqs[i]) ELSE PageSeqs[i])

\* A returned page of two messages, one parsable and one not.
C7_Witness ==
    /\ IsSync /\ Returned /\ faults = {}
    /\ Len(PageSeqs) = 2 /\ Len(result.emails) = 2
    /\ mbox[PageSeqs[1]].parses /\ ~mbox[PageSeqs[2]].parses

\* C8: whenever the structured parse of a message fails, the Message the sync
\* returns for it has body_text = Some(lossy UTF-8 of the raw bytes) and
\* body_html = None.
C8_FallbackBody ==
    (IsSync /\ Returned /\ result.kind = "ok" /\ faults = {}) =>
        \A i \in DOMAIN result.emails :
            LET m == result.emails[i]
            IN  ~mbox[PageSeqs[i]].parses =>
                    (m.body_text[1] = "lossy" /\ m.body_html = NoneStr)

\* C9: a sync during which a socket read failed or timed out returns an error.
C9_ReadFailureIsError ==
    (IsSync /\ Returned /\ "read" \in faults) => result.kind = "err"

\* C10: every operation that reached the authenticated state has sent its
\* close command (LOGOUT, resp. QUIT) by the time it returns.
C10_CloseAlwaysSent ==
    (Returned /\ loc.authed) => (Sends("LOGOUT") # {} \/ Sends("QUIT") # {})

-----------------------------------------------------------------------------
(* Claims about what a call leaves behind (Spec, SpecTwice) *)

IsDelete == call.op = "delete"
IsSetFlag == call.op = "set_flag"

\* The ids of a result list, in order.
IdsOf(emails) == [i \in DOMAIN emails |-> emails[i].id]

\* The index.json entries whose id is id.
EntriesOf(id) == {i \in DOMAIN store.index.entries : store.index.entries[i].id = id}

\* Writes of index.json, and removals of files, in the trace.
IndexWrites == {i \in Events("write") : trace[i].name = <<"index.json", 0>>}

\* The local change of set_flag / delete has been applied.
LocalChangeApplied ==
    /\ IsSetFlag =>
          \A i \in EntriesOf(call.id) :
              (\A j \in EntriesOf(call.id) : i <= j) =>
                  ((\E k \in DOMAIN store.index.entries[i].flags :
                        store.index.entries[i].flags[k] = "Seen") <=> call.read)
    /\ IsDelete => (EntriesOf(call.id) = {} /\ call.id \notin FileNames(store))

\* C11: a call whose only failed steps are LOGOUT, QUIT or EXPUNGE returns Ok:
\* a sync returns the page it fetched, set_flag and delete have applied their
\* change to the local store.
C11_CleanupFailureSwallowed ==
    (Returned /\ faults \subseteq {"logout", "quit", "expunge"}) =>
        /\ result.kind = "ok"
        /\ IsSync => Len(result.emails) = Len(PageSeqs)
        /\ LocalChangeApplied

\* C12: after a successful sync every returned message m has its file
\* {m.id}.eml in the account directory, holding the raw bytes of m.
C12_EmlPerMessage ==
    (IsSync /\ Returned /\ result.kind = "ok" /\ faults \subseteq CleanupFaults) =>
        \A i \in DOMAIN result.emails :
            \E f \in store.eml :
                /\ f.name = result.emails[i].id
                /\ Line("msg", PageSeqs[i]) \in Range(f.raw)

\* C13: the messages of a returned page, which are distinct server messages,
\* have pairwise distinct ids; a message of folder F with UID u has the id
\* F_u, and a sync of folder F writes no file named after another folder.
C13_UniqueIds ==
    (IsSync /\ Returned /\ result.kind = "ok" /\ faults \subseteq CleanupFaults) =>
        /\ \A i, j \in DOMAIN result.emails :
              i # j => result.emails[i].id # result.emails[j].id
        /\ call.proto = "imap" =>
              /\ \A i \in DOMAIN result.emails :
                    result.emails[i].id = <<call.folder, ServerUid(PageSeqs[i])>>
              /\ \A i \in Events("write") : trace[i].name[1] = call.folder

\* C14: the id of every returned message is the sanitized Message-ID when the
\* message carries a Message-ID header, and {folder}_{uid} with the folder of
\* the call and the uid of the message otherwise.
C14_IdDerivation ==
    (IsSync /\ Returned /\ result.kind = "ok" /\ faults \subseteq CleanupFaults) =>
        \A i \in DOMAIN result.emails :
            LET m == result.emails[i]
                mid == message_id_of(RawOf(PageSeqs[i]))
            IN  m.id = (IF mid # NoName THEN sanitize(mid) ELSE <<call.folder, m.uid>>)

\* C15: in every reachable state every entry of index.json has body_text and
\* body_html absent.
C15_IndexWithoutBodies ==
    \A i \in DOMAIN store.index.entries :
        /\ store.index.entries[i].body_text = NoneStr
        /\ store.index.entries[i].body_html = NoneStr

\* mark_email_read has rewritten an index of two entries, changing the flags
\* of one of them.
C15_Witness ==
    /\ IsSetFlag /\ Returned /\ result.kind = "ok"
    /\ IndexWrites # {}
    /\ Len(store.index.entries) = 2
    /\ store.index.entries # CachedStore(mbox).index.entries

\* C16: after a sync that returned a non-empty page, index.json exists and has
\* an entry for every returned id.
C16_SyncWritesIndex ==
    (IsSync /\ Returned /\ result.kind = "ok" /\ result.emails # <<>>) =>
        /\ store.index.exists
        /\ \A i \in DOMAIN result.emails : EntriesOf(result.emails[i].id) # {}

\* C17: the second of two syncs with the same arguments against the unchanged
\* mailbox returns the ids the first returned, in the same order, and leaves
\* the account directory as the first left it.
C17_SyncIdempotent ==
    (prev.set /\ Returned /\ result.kind = "ok") =>
        /\ IdsOf(result.emails) = IdsOf(prev.result.emails)
        /\ store = prev.store

\* The id was in index.json when the call began.
WasIndexed(id) ==
    \E i \in 1..Len(mbox) : IndexEntry(i).id = id

\* The number after the last underscore of an id of the form {folder}_{uid}.
NumericSuffix(id) == id[2]

ServerFaults == {"connect", "tls", "starttls", "login", "select", "store"}

\* C19: delete on IMAP with credentials: EXPUNGE is sent only after a STORE
\* that succeeded; index.json and the .eml files are changed only after STORE,
\* EXPUNGE and LOGOUT were sent; when connecting, login, SELECT or STORE
\* fails the call returns an error and the account directory is unchanged.
C19_DeleteOrder ==
    (IsDelete /\ has_server_part(call)) =>
        /\ \A e \in Sends("EXPUNGE") :
              /\ \E st \in DOMAIN trace :
                    st < e /\ trace[st].ev = "send" /\ trace[st].cmd = "STORE"
              /\ "store" \notin faults
        /\ \A w \in Events("write") \cup Events("remove") :
              /\ \E e \in Sends("EXPUNGE") : e < w
              /\ \E st \in DOMAIN trace :
                    st < w /\ trace[st].ev = "send" /\ trace[st].cmd = "STORE"
        /\ ~StoreUntouched => (Sends("EXPUNGE") # {} /\ "expunge" \notin faults)
        /\ faults \cap ServerFaults # {} =>
              /\ StoreUntouched
              /\ Sends("EXPUNGE") = {}
              /\ Returned => result.kind = "err"

\* A delete that went through STORE, EXPUNGE and LOGOUT and then removed the
\* index entry and the file of the message.
C19_Witness ==
    /\ IsDelete /\ has_server_part(call) /\ Returned /\ result.kind = "ok"
    /\ Sends("EXPUNGE") # {} /\ IndexWrites # {} /\ Events("remove") # {}
    /\ ~StoreUntouched

\* A delete that ended at a failed STORE.
C19_WitnessFailure ==
    /\ IsDelete /\ has_server_part(call) /\ Returned /\ "store" \in faults
    /\ store = CachedStore(mbox) /\ Len(mbox) = 2

\* C20: the server messages whose flags set_flag or delete changes, and the
\* messages delete expunges, are the message whose UID is the uid encoded in
\* the id and no other.
C20_TargetsUid ==
    (call.op \in {"set_flag", "delete"}) =>
        /\ \A st \in srv.stored : ServerUid(st[1]) = uid_of_id(call.id)
        /\ \A n \in srv.expunged : ServerUid(n) = uid_of_id(call.id)

-----------------------------------------------------------------------------
(* The local part of set_flag *)

\* The account directory as it was when the flag operation began (the flag
\* operations never create or remove the directory).
StoreBefore == IF store.dir THEN CachedStore(mbox) ELSE EmptyStore

\* Two index entries that differ at most in their flags.
SameButFlags(a, b) == [a EXCEPT !.flags = <<>>] = [b EXCEPT !.flags = <<>>]

\* C21: set_flag changes nothing in index.json except the flags of the entry
\* whose id is the given id: the other fields of that entry, the other
\* entries, their number and their order stay, no .eml file is touched, and
\* when no entry has the id the content of the index is unchanged.
C21_SetFlagFrame ==
    IsSetFlag =>
        LET old == StoreBefore.index.entries
            new == store.index.entries
        IN  /\ store.eml = StoreBefore.eml
            /\ store.index.exists = StoreBefore.index.exists
            /\ ~store.index.torn
            /\ Len(new) = Len(old)
            /\ \A i \in DOMAIN old :
                   /\ SameButFlags(new[i], old[i])
                   /\ old[i].id # call.id => new[i] = old[i]
-----------------------------------------------------------------------------
(* The cache readers *)

IsReadCached == call.op = "read_cached"
IsReadFull == call.op = "read_full"

\* The slices read_cached returns for offsets from, from + limit, ..., one
\* after the other.
RECURSIVE Slices(_, _, _)
Slices(entries, from, limit) ==
    IF from >= Len(entries) THEN <<>>
    ELSE get_cached_emails(entries, from, limit) \o Slices(entries, from + limit, limit)

\* C22: read_cached(offset, limit) returns the index entries at the (0-based)
\* positions offset .. min(offset + limit, len) - 1 in index order, with a
\* missing limit meaning "to the end" and a missing offset 0; nothing when
\* offset >= len or there is no index.json; it never modifies the store; the
\* slices for offsets 0, limit, 2*limit, ... put together are the whole index.
C22_ReadSlice ==
    (IsReadCached /\ Returned /\ result.kind = "ok") =>
        LET all == store.index.entries
            off == IF call.offset = NoneNum THEN 0 ELSE call.offset
            hi == IF call.limit = NoneNum THEN Len(all) ELSE Min(off + call.limit, Len(all))
        IN  /\ Len(result.emails) = Max(hi - off, 0)
            /\ \A k \in DOMAIN result.emails : result.emails[k] = all[off + k]
            /\ store = StoreBefore
            /\ call.limit \in 1..MaxLimit => Slices(all, 0, call.limit) = all

\* A read of a non-empty index returned a slice that starts inside the index
\* and stops before its end.
C22_Witness ==
    /\ IsReadCached /\ Returned /\ result.kind = "ok"
    /\ call.offset = 1 /\ call.limit = 1 /\ Len(store.index.entries) = MaxTotal
    /\ Len(result.emails) = 1

\* C23: read_full(id) takes the message from {id}.eml whenever that file
\* exists (also when {id}.json exists too), from the legacy {id}.json only
\* when there is no .eml, and reports "file does not exist" only when neither
\* exists; it never modifies the store.
C23_ReadFullResolution ==
    (IsReadFull /\ Returned /\ "fsread" \notin faults) =>
        LET name == safe_id(call.id)
        IN  /\ store = StoreBefore
            /\ IF name \in FileNames(store)
               THEN result.kind = "ok" /\ result.emails[1].body_text[1] = "text"
               ELSE IF name \in store.json
                    THEN result.kind = "ok" /\ result.emails[1].body_text[1] = "json"
                    ELSE result = Err("not_found")
-----------------------------------------------------------------------------
(* The POP3 login *)

IsPop3Sync == call.op = "sync" /\ call.proto = "pop3"

\* The answers of the server to cmd, as the trace recorded them when the
\* command was written.
Replies(cmd, t) ==
    {i \in Events("reply") : trace[i].cmd = cmd /\ trace[i].name[1] = t}

\* Every cmd that was sent was sent after an answer t to the command before.
SentOnlyAfter(cmd, before, t) ==
    \A i \in Sends(cmd) : \E r \in Replies(before, t) : r < i

NothingSent(cmds) == \A cmd \in cmds : Sends(cmd) = {}

\* C24: in a POP3 sync PASS is sent only after +OK to USER and UIDL only after
\* +OK to PASS; an answer to USER other than +OK ends the sync with the error
\* of the USER step, one to PASS with the different error of the login step,
\* and in both cases neither UIDL nor RETR is sent.
C24_Pop3LoginOrder ==
    IsPop3Sync =>
        /\ SentOnlyAfter("PASS", "USER", "+OK")
        /\ SentOnlyAfter("UIDL", "PASS", "+OK")
        /\ Replies("USER", "-ERR") # {} =>
              /\ NothingSent({"PASS", "UIDL", "RETR"})
              /\ (Returned /\ "read" \notin faults) => result = Err("USER")
        /\ Replies("PASS", "-ERR") # {} =>
              /\ NothingSent({"UIDL", "RETR"})
              /\ (Returned /\ "read" \notin faults) => result = Err("login")
        /\ Err("USER") # Err("login")

\* A sync that the server refused at PASS, after it had accepted USER.
C24_Witness ==
    /\ IsPop3Sync /\ Returned
    /\ Replies("USER", "+OK") # {} /\ Replies("PASS", "-ERR") # {}
    /\ result = Err("login")
-----------------------------------------------------------------------------
(* parse_uidl_response *)

\* The position of the first "." line of the text, or one past its end.
FirstDot(lines) ==
    IF \E i \in DOMAIN lines : lines[i].t = "."
    THEN CHOOSE i \in DOMAIN lines :
            lines[i].t = "." /\ \A j \in 1..(i - 1) : lines[j].t # "."
    ELSE Len(lines) + 1

\* A line "n unique-id".
IsListing(line) == line.t = "uidl"

\* C25: parse_uidl_response returns, in input order, one pair per line before
\* the first "." line that has at least two tokens and a numeric first token;
\* blank lines, +OK lines, lines of fewer than two tokens and everything
\* after the "." line give nothing.
C25_UidlParse ==
    pc = "uidl_out" =>
        LET listed == SelectSeq(SubSeq(wire, 1, FirstDot(wire) - 1), IsListing)
        IN  /\ Len(loc.page) = Len(listed)
            /\ \A i \in DOMAIN listed :
                   loc.page[i] = <<listed[i].n, ServerUidl(listed[i].n)>>

\* A text with a listing line before and another after the "." line.
C25_Witness ==
    /\ pc = "uidl_out"
    /\ \E i, j, k \in DOMAIN wire :
          i < j /\ j < k /\ wire[i].t = "uidl" /\ wire[j].t = "." /\ wire[k].t = "uidl"
    /\ Len(loc.page) = 1
-----------------------------------------------------------------------------
(* The POP3 page against the IMAP page (SpecPages) *)

\* The UIDL response of a server holding the sequence numbers 1..n.
UidlListing(n) ==
    <<Line("+OK", 0)>> \o [i \in 1..n |-> Line("uidl", i)] \o <<Line(".", 0)>>

\* The sequence numbers of a POP3 page, in page order.
SeqsOf(page) == [i \in DOMAIN page |-> page[i][1]]

\* The sequence numbers of the inclusive range r, newest first.
NewestFirst(r) == [i \in 1..(r[2] - r[1] + 1) |-> r[2] - i + 1]

\* C26: for a UIDL listing of the sequence numbers 1..n and every skip and
\* max_emails, the sequence numbers of the POP3 page are, in the same
\* newest-first order, those of the IMAP page for total = n.
C26_SamePageOnBothProtocols ==
    pg_pc # "call" =>
        SeqsOf(pop3_page(UidlListing(pg_total), pg_skip, pg_max))
            = IF pg_pc = "fetched" THEN NewestFirst(Last(pg_pages)) ELSE <<>>
-----------------------------------------------------------------------------
(* The accounts *)

\* What identifies the account: its account_id, or its e-mail address when it
\* has none.
AccountIdentifier(a) == IF a.account_id.some THEN a.account_id.v ELSE a.email

\* The file system after worker w's sync has run alone on f.
SyncAlone(f, w) ==
    IF wk[w].total = 0 THEN f
    ELSE LET paths == {<<account_dir(accounts[w]), <<Folder, n>>>> : n \in 1..wk[w].total}
         IN  [dirs |-> f.dirs \cup {account_dir(accounts[w])},
              files |-> {x \in f.files : x.path \notin paths}
                        \cup {[path |-> <<account_dir(accounts[w]), <<Folder, n>>>>,
                               raw |-> AccountRaw(w, n)] : n \in 1..wk[w].total}]

C29_SessionChoice ==
    (accounts # <<>> /\ pc = "connect") =>
        LET a == accounts[1]
            pop3 == a.protocol.some /\ a.protocol.v = "pop3"
        IN  /\ call.proto = IF pop3 THEN "pop3" ELSE "imap"
            /\ call.tls = (a.imap_port = IF pop3 THEN 995 ELSE 993)
-----------------------------------------------------------------------------
(* Failed writes and silent peers *)

\* C28: when the whole-file write of index.json fails before completion (in
\* set_flag or delete), the operation returns an error and the file still
\* holds its complete previous content, never an empty or cut-short one.
C28_FailedWriteKeepsFile ==
    ((IsSetFlag \/ IsDelete) /\ Returned /\ "fswrite" \in faults) =>
        /\ result.kind = "err"
        /\ store.index = StoreBefore.index

\* C30: on every path of a sync (IMAP with and without TLS, POP3 with and
\* without TLS) the 30-second read timeout is on the socket from the moment
\* the connection is made, before the first protocol read, so that no read
\* can block for ever and the call returns.
C30_ReadTimeoutSet ==
    (IsSync /\ Events("connect") # {}) => loc.timeout
-----------------------------------------------------------------------------
(* decode_mime_header (SpecMime) *)

\* The header with every well-formed encoded-word replaced by its decoded
\* text and every other word left as it is.
RECURSIVE DecodedHeader(_)
DecodedHeader(words) ==
    IF words = <<>> THEN <<>> ELSE Head(words).decoded \o DecodedHeader(Tail(words))

\* C31: decode_mime_header replaces every encoded-word with encoding B or Q
\* by its decoded text (also a Q payload that starts with an =XX escape) and
\* leaves verbatim a word with an unrecognized encoding letter or an
\* undecodable payload, which does not keep well-formed words after it from
\* being decoded.
C31_MimeDecoded ==
    tx_pc = "done" => trim(tx_out) = trim(DecodedHeader(tx_in))
-----------------------------------------------------------------------------
(* The IMAP session of a sync *)

IsImapSync == call.op = "sync" /\ call.proto = "imap"

\* The lines read_imap_line has returned, by kind.
Lines(kind) == {i \in Events("line") : trace[i].cmd = kind}

AllSends == Events("send")

\* Every cmd was sent after some position of the set before.
After(cmd, before) == \A i \in Sends(cmd) : \E j \in before : j < i

\* C32: the commands of one IMAP sync follow the session state machine. On
\* the TLS path the greeting is read before anything is sent, then ID is
\* sent, and LOGIN only after the line tagged A000 has been read; without TLS
\* no ID is sent. SELECT is sent only after a LOGIN that succeeded, FETCH only
\* after a SELECT that succeeded, and nothing is sent after LOGOUT.
C32_ImapCommandOrder ==
    IsImapSync =>
        /\ call.tls =>
              /\ \A i \in AllSends : \E g \in Lines("greeting") : g < i
              /\ After("LOGIN", Lines("A000"))
              /\ \A t \in Lines("A000") : \E i \in Sends("ID") : i < t
        /\ ~call.tls => Sends("ID") = {}
        /\ After("SELECT", Sends("LOGIN")) /\ (Sends("SELECT") # {} => "login" \notin faults)
        /\ After("FETCH", Sends("SELECT")) /\ (Sends("FETCH") # {} => "select" \notin faults)
        /\ \A o \in Sends("LOGOUT"), i \in AllSends : i <= o
        /\ \A cmd \in {"ID", "LOGIN", "SELECT", "FETCH", "LOGOUT"} : Cardinality(Sends(cmd)) <= 1

\* A sync over TLS that read the tagged ID response and went on to LOGIN,
\* SELECT, FETCH and LOGOUT.
C32_Witness ==
    /\ IsImapSync /\ call.tls /\ Returned
    /\ Lines("greeting") # {} /\ Lines("A000") # {}
    /\ Sends("FETCH") # {} /\ Sends("LOGOUT") # {}
-----------------------------------------------------------------------------
(* read_imap_line and the handshake (SpecLine, SpecHandshake) *)

\* The position of the LF of the first CRLF of the stream after position
\* from, or 0 when there is none.
CrlfEnd(stream, from) ==
    LET ends == {i \in (from + 2)..Len(stream) : stream[i - 1] = CR /\ stream[i] = LF}
    IN  IF ends = {} THEN 0 ELSE CHOOSE i \in ends : \A j \in ends : i <= j

\* The position of the last byte of the first line after position from that
\* starts with the tag.
RECURSIVE TaggedEnd(_, _)
TaggedEnd(stream, from) ==
    IF CrlfEnd(stream, from) = 0 THEN 0
    ELSE IF stream[from + 1] = "T" THEN CrlfEnd(stream, from)
    ELSE TaggedEnd(stream, CrlfEnd(stream, from))

\* C33: on the TLS path the bytes the IMAP client reads are the greeting line
\* followed by what the server sends after its tagged ID response: the
\* greeting comes first, no byte of the ID response reaches the client and no
\* byte is lost in between.
C33_ClientSeesGreetingThenRest ==
    tx_pc = "client" =>
        LET greeting == SubSeq(tx_in, 1, CrlfEnd(tx_in, 0))
            after == SubSeq(tx_in, TaggedEnd(tx_in, CrlfEnd(tx_in, 0)) + 1, Len(tx_in))
        IN  /\ IsPrefixOf(ps_out, greeting \o after)
            /\ ps_prefix \o ps_inner = greeting \o after

\* The client has read the greeting and everything after an ID response with
\* an untagged line that holds the tag elsewhere than at its start.
C33_Witness ==
    /\ tx_pc = "client"
    /\ \E i \in 1..(Len(tx_in) - 1) : tx_in[i] = "u" /\ tx_in[i + 1] = "T"
    /\ Len(ps_inner) = MaxInner
    /\ Len(ps_out) = Len(ps_prefix) + Len(ps_inner)

\* C36: read_imap_line returns the bytes up to and including the first CRLF
\* and consumes nothing after it; on a stream without CRLF it stops after
\* consuming at most the limit (8192 bytes) and returns what it read; a read
\* failure gives an error and no line.
C36_LineWithinLimit ==
    /\ tx_pc \in {"line", "done"} => tx_pos <= LineCap
    /\ tx_pc = "done" =>
          /\ tx_out = SubSeq(tx_in, 1, tx_pos)
          /\ ends_crlf(tx_out) => tx_pos = CrlfEnd(tx_in, 0)
          /\ ~ends_crlf(tx_out) => CrlfEnd(tx_in, 0) \notin 1..tx_pos
    /\ tx_pc = "err" => tx_out = <<>>
-----------------------------------------------------------------------------
(* The POP3 responses (Spec) *)

\* C34: when the POP3 sync has read the UIDL response, its page is computed
\* from every pair of the listing, however the response was split across
\* socket reads, and no part of the response is left in the stream.
C34_UidlWhole ==
    (IsPop3Sync /\ pc \in {"pop_mkdir", "pop_quit"} /\ Sends("RETR") = {}) =>
        /\ wire = <<>>
        /\ Len(loc.page) = Min(call.max, Max(Len(mbox) - call.skip, 0))

\* C35: when the read loop of a RETR ends, the response collected for the
\* sequence number is the server's whole response to that RETR, terminator
\* included, and nothing else, however it was split across reads; the next
\* RETR is written with no byte of an earlier response pending.
C35_RetrOwnResponse ==
    /\ (IsPop3Sync /\ pc = "pop_save") =>
            loc.response = RetrResponse(loc.page[loc.i][1])
    /\ (IsPop3Sync /\ pc = "pop_retr" /\ loc.i > 1) => wire = <<>>
-----------------------------------------------------------------------------
(* The flags of an index entry (SpecFlags) *)

SeenCount(flags) == Cardinality({i \in DOMAIN flags : flags[i] = "Seen"})
OtherFlags(flags) == SelectSeq(flags, LAMBDA f : f # "Seen")

\* C37: set_flag on the local index is idempotent and reversible: read = true
\* leaves flags that contain "Seen" and adds no second one, read = false
\* leaves flags without "Seen", the other flags stay as they are, a repeated
\* call changes nothing, and true followed by false on flags without "Seen"
\* gives the original flags back.
C37_SetFlagIdempotent ==
    tx_pc = "flags" =>
        \A i \in DOMAIN tx_out :
            /\ OtherFlags(tx_in[i + 1]) = OtherFlags(tx_in[i])
            /\ SeenCount(tx_in[i + 1]) = (IF tx_out[i] THEN Max(1, SeenCount(tx_in[i])) ELSE 0)
            /\ (i > 1 /\ tx_out[i - 1] = tx_out[i]) => tx_in[i + 1] = tx_in[i]
            /\ (i > 1 /\ tx_out[i - 1] /\ ~tx_out[i] /\ SeenCount(tx_in[i - 1]) = 0) =>
                    tx_in[i + 1] = tx_in[i - 1]

\* Flags without "Seen" were set read twice and then unread.
C37_Witness ==
    /\ tx_pc = "flags"
    /\ tx_out = <<TRUE, TRUE, FALSE>>
    /\ tx_in[1] = <<"Answered">>
    /\ tx_in[4] = <<"Answered">>
-----------------------------------------------------------------------------
(* Two commands on one account (SpecRace) *)

BothReturnedOk == \A w \in {Marker, Deleter} : wk[w].pc = "done" /\ wk[w].res = "ok"

\* C38: when set_flag on message A and delete of message B (A # B) run at the
\* same time on one account and both succeed, index.json afterwards has no
\* entry for B and the entry of A, still present, carries "Seen" exactly when
\* read was true, whatever the interleaving of the reads and writes.
C38_BothEffectsPresent ==
    (wk # <<>> /\ BothReturnedOk) =>
        /\ ~store.index.torn
        /\ EntriesOf(wk[Deleter].id) = {}
        /\ (\E i \in DOMAIN CachedStore(mbox).index.entries :
                CachedStore(mbox).index.entries[i].id = wk[Marker].id)
             => EntriesOf(wk[Marker].id) # {}
        /\ \A i \in EntriesOf(wk[Marker].id) :
              (\E k \in DOMAIN store.index.entries[i].flags :
                    store.index.entries[i].flags[k] = "Seen") <=> wk[Marker].read
-----------------------------------------------------------------------------
(* delete_email alone (SpecDelete) *)

\* The .eml files of the message with the given id: the file named by the id
\* and, for an id "{folder}_{n}", the file named by the number alone.
OwnFiles(id) == {id} \cup (IF id[1] \in {Folder, AccountDir} THEN {<<"", id[2]>>} ELSE {})

\* C39: delete(id) leaves every other message untouched: the index entries
\* with another id keep their content and their order, and no .eml file of
\* another message is removed, the file "{n}.eml" of a POP3 message stored
\* under its sequence number included when the id merely ends in "_n".
C39_DeleteFrame ==
    (wk # <<>> /\ wk[Marker].pc = "done" /\ wk[Deleter].pc = "done" /\ wk[Deleter].res = "ok") =>
        LET id == wk[Deleter].id
        IN  /\ SelectSeq(store.index.entries, LAMBDA e : e.id # id)
                    = SelectSeq(prev.store.index.entries, LAMBDA e : e.id # id)
            /\ \A f \in prev.store.eml : f.name \notin OwnFiles(id) => f \in store.eml
-----------------------------------------------------------------------------
(* The identity of POP3 messages (Spec) *)

\* C40: every message a POP3 sync returns carries as uid the sequence number
\* it was retrieved with and as uid_string the unique-id the UIDL response
\* listed for that sequence number, whether mail_parser parsed it or the
\* fallback did.
C40_Pop3Identity ==
    (IsPop3Sync /\ Returned /\ result.kind = "ok") =>
        \A i \in DOMAIN result.emails :
            /\ result.emails[i].uid = loc.page[i][1]
            /\ result.emails[i].uid_string = <<"some", ServerUidl(loc.page[i][1])>>
====
